---- MODULE Spec2Model ----
(***************************************************************************)
(* dash-of-pi: rolling archive, storage quota enforcer and on-demand       *)
(* export pipeline, modelled from the Go sources.                          *)
(***************************************************************************)
EXTENDS Integers, Sequences, FiniteSets, TLC

\* ------------------------------------------------------------------------
\* Bounds of the model
\* ------------------------------------------------------------------------
\* last second of the wall clock
MaxTime == 2
\* number of segment files the archive holds at a time
MaxFiles == 3
\* a segment grows in steps of SizeQuantum bytes, up to this many steps
MaxSizeSteps == 2
\* bytes written to a segment by one write step
SizeQuantum == 400000000
\* capacity of the disk that holds the archive, in bytes
MaxDiskBytes == 2000000000

\* last second of the wall clock while exports are followed
MaxExportTime == 3
\* export requests in one behaviour
MaxExports == 2
\* export jobs that run at the same time
MaxJobs == 2
\* I/O operations that fail in one behaviour
MaxFaults == 1
\* process crashes (power losses) in one behaviour
MaxCrashes == 1
\* size the transcoder output grows to, in output chunks
MaxOutSize == 1
\* RestartWithConfigs calls in a behaviour
MaxRestarts == 2
\* callers of UpdateFrame and of GetLatestFrame, frame length, byte values
MaxWriters == 2
MaxReaders == 2
MaxFrameLen == 2
MaxByte == 2
\* length of a capture file; the tail window read from it and the distance
\* searched for a start marker, scaled down from 1 MB and 200 KB
MaxFileLen == 10
ReadWindow == 8
MaxFrameBytes == 4
\* last second of the wall clock while status requests are followed
MaxStatsTime == 8
\* camera objects created for one camera id, goroutines that restart the
\* cameras, frame-refresh goroutines per camera object, stream viewers, and
\* frames the encoder writes
MaxObjects == 3
MaxThreads == 2
MaxTasks == 2
MaxViewers == 2
MaxFrames == 2

\* ------------------------------------------------------------------------
\* Program constants and configuration
\* ------------------------------------------------------------------------
BytesPerMB == 1048576
BytesPerGB == 1073741824
storageCapGB == 1
\* GetStorageStats answers from the cache for this many seconds
FreshSeconds == 5
\* consts.go: the stream is closed after more than 50 missed frames
MJPEGNoFrameTimeout == 50

Cameras == {"front", "rear"}
None == "none"

\* A directory name is modelled by its first character followed by the rest
\* of the name, so that the tests on name[0] and on the name prefix are
\* computed as the code computes them.
CameraDirName(cam) == <<"c", cam>>
ExportDirName == <<".", "export">>
TempPrefix == "temp_export_"
TempDirName(t) == <<".", TempPrefix, t>>

VARIABLES
    now,        \* wall clock, in seconds
    archive,    \* the segment files in the camera directories
    recording,  \* per camera: name of the file its encoder writes, or None
    sm,         \* StorageManager: cached usage and the position of its run
    run,        \* history of the current / last eviction run
    up,         \* the process is running
    exportInfo, \* APIServer.exportInfo
    exportFile, \* <videoDir>/.export/current_export.mp4
    sidecar,    \* <videoDir>/.export/export_info.json
    temp,       \* the .temp_export_<t> directories, by their suffix t
    job,        \* the generateExportAsync goroutines
    ff,         \* the transcoder process of each job
    hist,       \* history: requests, faults and crashes so far
    cm,         \* CameraManager: the camera maps and the position of a restart
    cams,       \* per camera: its capture loop, encoder process and Stop
    stream,     \* StreamManager: the cached latest frame, writers and readers
    extr,       \* the frame extractor: capture file and result
    web         \* live frames: per-camera caches, refresh tasks, HTTP viewers

storageVars == <<now, archive, recording, sm, run>>
exportVars == <<up, exportInfo, exportFile, sidecar, temp, job, ff, hist>>
cameraVars == <<cm, cams, stream, extr, web>>
vars == <<now, archive, recording, sm, run,
          up, exportInfo, exportFile, sidecar, temp, job, ff, hist,
          cm, cams, stream, extr, web>>

\* ------------------------------------------------------------------------
\* Helpers
\* ------------------------------------------------------------------------
RECURSIVE SumSizes(_)
SumSizes(S) ==
    IF S = {} THEN 0
    ELSE LET f == CHOOSE x \in S : TRUE IN f.size + SumSizes(S \ {f})

RECURSIVE SeqSizes(_)
SeqSizes(s) == IF s = <<>> THEN 0 ELSE Head(s).size + SeqSizes(Tail(s))

Range(s) == {s[i] : i \in 1..Len(s)}

Path(f) == <<f.dir, f.name>>

\* IsMJPEGFile: the extension of the file name is .mjpeg or .mp4
IsMJPEGFile(ext) == ext = ".mjpeg" \/ ext = ".mp4"
isVideoFile(ext) == IsMJPEGFile(ext)

\* entry.Name()[0] == '.'
IsHiddenDirMutant(name) == name[1] = "-"
IsHiddenDir(name) == name[1] = "."

capBytes == storageCapGB * BytesPerGB

\* ------------------------------------------------------------------------
\* Capture loop, as far as it writes the archive
\* ------------------------------------------------------------------------
SegmentName(cam, t) == <<"dashcam", cam, t>>

\* ffmpeg -y opens its output: the file is created, or truncated if a file
\* of that name exists.
StartSegment(cam) ==
    /\ recording[cam] = None
    /\ Cardinality(archive) < MaxFiles
    /\ LET name == SegmentName(cam, now)
           f == [dir |-> CameraDirName(cam), name |-> name, ext |-> ".mjpeg",
                 modTime |-> now, size |-> 0]
       IN /\ archive' = {g \in archive : Path(g) # Path(f)} \cup {f}
          /\ recording' = [recording EXCEPT ![cam] = name]
    /\ run' = [run EXCEPT !.clean = FALSE, !.quiet = 0, !.prevDeleted = FALSE]
    /\ UNCHANGED <<now, sm>>
    /\ UNCHANGED exportVars
    /\ UNCHANGED cameraVars

\* the encoder appends frames to its segment; a file that was unlinked in
\* the meantime is no longer reachable under its name
WriteFrames(cam) ==
    /\ recording[cam] # None
    /\ \E f \in archive :
         /\ Path(f) = <<CameraDirName(cam), recording[cam]>>
         /\ f.size < MaxSizeSteps * SizeQuantum
         /\ SumSizes(archive) <= MaxDiskBytes - SizeQuantum
         /\ archive' = (archive \ {f}) \cup
                         {[f EXCEPT !.size = f.size + SizeQuantum, !.modTime = now]}
    /\ run' = [run EXCEPT !.clean = FALSE, !.quiet = 0, !.prevDeleted = FALSE]
    /\ UNCHANGED <<now, recording, sm>>
    /\ UNCHANGED exportVars
    /\ UNCHANGED cameraVars

\* the encoder exits (segment duration elapsed, crash or kill)
EndSegment(cam) ==
    /\ recording[cam] # None
    /\ recording' = [recording EXCEPT ![cam] = None]
    /\ UNCHANGED <<now, archive, sm, run>>
    /\ UNCHANGED exportVars
    /\ UNCHANGED cameraVars

Tick ==
    /\ now < MaxTime
    /\ now' = now + 1
    /\ UNCHANGED <<archive, recording, sm, run>>
    /\ UNCHANGED exportVars
    /\ UNCHANGED cameraVars

\* ------------------------------------------------------------------------
\* StorageManager.enforceStorageCap
\* ------------------------------------------------------------------------
\* the camera subdirectories the scan enters: every directory under the
\* archive root whose name does not start with '.'
RootDirs ==
    {CameraDirName(c) : c \in Cameras} \cup {ExportDirName}
        \cup {TempDirName(t) : t \in {u \in DOMAIN temp : temp[u].exists}}

\* the files copied into the export workspaces (segment_NNN.mjpeg)
WorkspaceFiles ==
    UNION {{[dir |-> TempDirName(t), name |-> <<"segment", s.idx>>, ext |-> ".mjpeg",
             modTime |-> s.modTime, size |-> s.size] : s \in temp[t].segs}
           : t \in {u \in DOMAIN temp : temp[u].exists}}

\* the export output (current_export.mp4) in the export directory
ExportFiles ==
    IF exportFile.exists
    THEN {[dir |-> ExportDirName, name |-> <<"current_export">>, ext |-> ".mp4",
           modTime |-> 0, size |-> exportFile.size * SizeQuantum]}
    ELSE {}

\* every file in a directory directly under the archive root
DiskFiles == archive \cup WorkspaceFiles \cup ExportFiles

ScannedFiles ==
    {f \in DiskFiles : f.dir \in RootDirs /\ ~IsHiddenDir(f.dir) /\ isVideoFile(f.ext)}

FileInfo(f) == [path |-> Path(f), modTime |-> f.modTime, size |-> f.size]

\* sort.Slice(files, modTime.Before): some permutation of the files in
\* which no file comes before an older one (the sort is not stable)
lessMutant(a, b) == a.modTime > b.modTime
less(a, b) == a.modTime < b.modTime

SortedOrders(S) ==
    {s \in [1..Cardinality(S) -> S] :
        /\ \A i, j \in 1..Cardinality(S) : i # j => s[i] # s[j]
        /\ \A i, j \in 1..Cardinality(S) : i < j => ~less(s[j], s[i])}

\* loop condition of the delete loop: stop when the list is exhausted or
\* the running total is at or below the cap
KeepDeletingMutant(files, idx, totalSize, deletedCount) ==
    idx <= Len(files) /\ ~(totalSize <= capBytes) /\ deletedCount = 0
KeepDeleting(files, idx, totalSize, deletedCount) ==
    idx <= Len(files) /\ ~(totalSize <= capBytes)

\* totalSize -= f.size
AfterDeleteMutant(totalSize, size) == totalSize - 2 * size
AfterDelete(totalSize, size) == totalSize - size

\* lines 54-120: scan, cache the usage, decide whether to delete; the
\* camera directories in unreadable cannot be read and are passed over
EnforceScanOf(unreadable) ==
    /\ up
    /\ sm.pc = "idle"
    /\ LET files == {FileInfo(f) : f \in {g \in ScannedFiles : g.dir \notin unreadable}}
           totalSize == SumSizes(files)
       IN /\ \E order \in SortedOrders(files) :
               sm' = [sm EXCEPT !.lastUsed = totalSize,
                                !.lastChecked = now,
                                !.totalSize = totalSize,
                                !.files = IF totalSize > capBytes THEN order ELSE <<>>,
                                !.idx = 1,
                                !.deletedCount = 0,
                                !.pc = IF totalSize > capBytes THEN "delete" ELSE "idle"]
          /\ run' = [clean |-> TRUE,
                     prevDeleted |-> (run.quiet >= 1 /\ sm.deletedCount > 0),
                     done |-> ~(totalSize > capBytes),
                     quiet |-> IF totalSize > capBytes THEN run.quiet
                               ELSE IF run.quiet < 2 THEN run.quiet + 1 ELSE 2]
    /\ UNCHANGED <<now, archive, recording>>
    /\ UNCHANGED <<up, exportInfo, exportFile, sidecar, temp, job, ff>>
    /\ UNCHANGED cameraVars

\* a scan in which every directory can be read
EnforceScan ==
    /\ EnforceScanOf({})
    /\ UNCHANGED hist

\* lines 123-137: one iteration of the delete loop
EnforceDelete ==
    /\ up
    /\ sm.pc = "delete"
    /\ KeepDeleting(sm.files, sm.idx, sm.totalSize, sm.deletedCount)
    /\ LET f == sm.files[sm.idx]
           onDisk == {g \in DiskFiles : Path(g) = f.path}
       IN IF onDisk # {}
          THEN /\ archive' = archive \ onDisk
               /\ temp' = [t \in DOMAIN temp |->
                             [temp[t] EXCEPT !.segs =
                                {s \in @ : <<TempDirName(t), <<"segment", s.idx>>>> # f.path}]]
               /\ sm' = [sm EXCEPT !.idx = @ + 1,
                                   !.deletedCount = @ + 1,
                                   !.totalSize = AfterDelete(@, f.size),
                                   !.lastUsed = AfterDelete(sm.totalSize, f.size)]
          ELSE /\ sm' = [sm EXCEPT !.idx = @ + 1]
               /\ UNCHANGED <<archive, temp>>
    /\ UNCHANGED run
    /\ UNCHANGED <<now, recording>>
    /\ UNCHANGED <<up, exportInfo, exportFile, sidecar, job, ff, hist>>
    /\ UNCHANGED cameraVars

\* lines 124-126, 139-147: the loop ends and the run returns
EnforceReturn ==
    /\ up
    /\ sm.pc = "delete"
    /\ ~KeepDeleting(sm.files, sm.idx, sm.totalSize, sm.deletedCount)
    /\ sm' = [sm EXCEPT !.pc = "idle", !.files = <<>>, !.idx = 1, !.totalSize = 0]
    /\ run' = [run EXCEPT !.done = TRUE,
                          !.quiet = IF ~run.clean THEN 0
                                    ELSE IF @ < 2 THEN @ + 1 ELSE 2]
    /\ UNCHANGED <<now, archive, recording>>
    /\ UNCHANGED exportVars
    /\ UNCHANGED cameraVars

\* ------------------------------------------------------------------------
\* Export pipeline: data
\* ------------------------------------------------------------------------
Jobs == 1..MaxJobs

\* ExportInfo; the requested range and the file name are not followed
Info(available, inProgress, progress) ==
    [available |-> available, inProgress |-> inProgress, progress |-> progress,
     totalSegments |-> 0, processedFiles |-> 0, size |-> 0, currentSize |-> 0]

\* no workspace directory of that name
NoDir == [exists |-> FALSE, segs |-> {}, concat |-> <<>>]

\* no sidecar file
NoSidecar == [exists |-> FALSE, info |-> Info(FALSE, FALSE, "")]

\* no file at the export path
NoFile == [exists |-> FALSE, size |-> 0, by |-> 0]

\* tempDir of a job that has not created its workspace
NoTemp == 0 - 1

\* a goroutine slot with no export job in it
IdleJob ==
    [pc |-> "idle", aid |-> 0, startTime |-> 0, endTime |-> 0, found |-> {},
     mjpegFiles |-> <<>>, tempDir |-> NoTemp, i |-> 0, tempFiles |-> <<>>,
     infoSize |-> 0, outcome |-> "none", killedPrior |-> FALSE, sorted |-> <<>>]

\* no transcoder process
NoCmd == [state |-> "none", attached |-> FALSE]

ActiveJobs == {j \in Jobs : job[j].pc # "idle"}

\* an I/O operation may fail while the fault budget lasts
MayFail == hist.faults < MaxFaults
Fault == [hist EXCEPT !.faults = @ + 1]

\* os.RemoveAll(dir) of a workspace directory
RemoveAllTemp(tmp, t) == [tmp EXCEPT ![t] = NoDir]

\* StorageManager.CleanupTempExportDirs: every directory under the archive
\* root whose name is longer than the prefix ".temp_export_" and starts with
\* it is removed
IsTempExportDir(name) == Len(name) > 2 /\ name[1] = "." /\ name[2] = TempPrefix
CleanupTempExportDirs(tmp) ==
    [t \in DOMAIN tmp |-> IF IsTempExportDir(TempDirName(t)) THEN NoDir ELSE tmp[t]]

\* the deferred functions of generateExportAsync, run when it returns:
\* os.RemoveAll(tempDir) if the workspace was created
ReturnTempMutant(tmp, j) == tmp
ReturnTemp(tmp, j) ==
    IF job[j].tempDir = NoTemp THEN tmp ELSE RemoveAllTemp(tmp, job[j].tempDir)

Finished(j, outcome) ==
    [IdleJob EXCEPT !.outcome = outcome, !.aid = job[j].aid,
                    !.killedPrior = job[j].killedPrior]

\* a finished export is on disk: its output and its sidecar
PriorExport == exportFile.exists /\ exportFile.size > 0 /\ sidecar.exists

\* ------------------------------------------------------------------------
\* handleGenerateExport and generateExportAsync
\* ------------------------------------------------------------------------
\* POST generate-export?start=..&end=..: the job is started unconditionally
handleGenerateExport(startTime, endTime) ==
    /\ up
    /\ hist.requests < MaxExports
    /\ \E j \in Jobs :
         /\ job[j].pc = "idle"
         /\ \A k \in Jobs : k < j => job[k].pc # "idle"
         /\ job' = [job EXCEPT ![j] = [IdleJob EXCEPT !.pc = "cleanup",
                                                     !.aid = hist.requests + 1,
                                                     !.startTime = startTime,
                                                     !.endTime = endTime]]
    /\ hist' = [hist EXCEPT !.requests = @ + 1]
    /\ UNCHANGED <<up, exportInfo, exportFile, sidecar, temp, ff>>
    /\ UNCHANGED storageVars
    /\ UNCHANGED cameraVars

\* lines 99-102: sweep the leftover workspaces
JobCleanup(j) ==
    /\ job[j].pc = "cleanup"
    /\ temp' = CleanupTempExportDirs(temp)
    /\ job' = [job EXCEPT ![j].pc = "init"]
    /\ UNCHANGED <<up, exportInfo, exportFile, sidecar, ff, hist>>
    /\ UNCHANGED storageVars
    /\ UNCHANGED cameraVars

\* lines 104-113: initial progress state
JobInit(j) ==
    /\ job[j].pc = "init"
    /\ exportInfo' = Info(FALSE, TRUE, "Scanning for video files...")
    /\ job' = [job EXCEPT ![j].pc = "scan"]
    /\ UNCHANGED <<up, exportFile, sidecar, temp, ff, hist>>
    /\ UNCHANGED storageVars
    /\ UNCHANGED cameraVars

\* the range filter handed to walkCameraVideos (line 139)
InRangeMutant(modTime, startTime, endTime) ==
    modTime > startTime /\ ~(modTime > endTime)
InRange(modTime, startTime, endTime) ==
    (modTime > startTime \/ modTime = startTime) /\ ~(modTime > endTime)

\* walkCameraVideos: the video files of the camera subdirectories that the
\* filter accepts
walkCameraVideos(startTime, endTime) ==
    {Path(f) : f \in {g \in archive : /\ ~IsHiddenDir(g.dir)
                                      /\ IsMJPEGFile(g.ext)
                                      /\ InRange(g.modTime, startTime, endTime)}}

\* lines 134-162: scan; no file in range is a failure
JobScan(j) ==
    /\ job[j].pc = "scan"
    /\ LET mjpegFiles == walkCameraVideos(job[j].startTime, job[j].endTime)
       IN IF mjpegFiles = {}
          THEN /\ exportInfo' = Info(FALSE, FALSE, "No videos found in the specified date range")
               /\ job' = [job EXCEPT ![j] = Finished(j, "failed")]
          ELSE /\ exportInfo' = [exportInfo EXCEPT
                                   !.progress = "Found video segments, preparing to copy...",
                                   !.totalSegments = Cardinality(mjpegFiles)]
               /\ job' = [job EXCEPT ![j].pc = "sort", ![j].found = mjpegFiles]
    /\ UNCHANGED <<up, exportFile, sidecar, temp, ff, hist>>
    /\ UNCHANGED storageVars
    /\ UNCHANGED cameraVars

\* lines 141-144: the directory scan fails; the job returns
JobScanError(j) ==
    /\ job[j].pc = "scan"
    /\ MayFail
    /\ hist' = Fault
    /\ job' = [job EXCEPT ![j] = Finished(j, "failed")]
    /\ UNCHANGED <<up, exportInfo, exportFile, sidecar, temp, ff>>
    /\ UNCHANGED storageVars
    /\ UNCHANGED cameraVars

\* the files of the scan that are still in the archive
StillThere(paths) == {f \in archive : Path(f) \in paths}

\* lines 164-169: sort by the modification time os.Stat reports now (sorted
\* keeps the times the sort has read, in the order of the result).  The
\* result of os.Stat is used unchecked: with two or more files, a file that
\* is gone makes the comparison dereference nil and the job panics.
SortPanics(j) ==
    Cardinality(job[j].found) >= 2 /\ Cardinality(StillThere(job[j].found)) < Cardinality(job[j].found)

JobSort(j) ==
    /\ job[j].pc = "sort"
    /\ ~SortPanics(j)
    /\ IF Cardinality(job[j].found) = 1
       THEN job' = [job EXCEPT ![j].pc = "mkdir", ![j].found = {},
                               ![j].startTime = 0, ![j].endTime = 0,
                               ![j].mjpegFiles = <<CHOOSE p \in job[j].found : TRUE>>,
                               ![j].sorted = <<0>>]
       ELSE \E order \in SortedOrders({FileInfo(f) : f \in StillThere(job[j].found)}) :
               job' = [job EXCEPT ![j].pc = "mkdir", ![j].found = {},
                                  ![j].startTime = 0, ![j].endTime = 0,
                                  ![j].mjpegFiles = [n \in 1..Len(order) |-> order[n].path],
                                  ![j].sorted = [n \in 1..Len(order) |-> order[n].modTime]]
    /\ UNCHANGED <<up, exportInfo, exportFile, sidecar, temp, ff, hist>>
    /\ UNCHANGED storageVars
    /\ UNCHANGED cameraVars

\* lines 127-130: the guard removes the file at the export path
GuardRemoveMutant(file) == file
GuardRemove(file) == NoFile

\* lines 115-132: the deferred guard recovers the panic (the workspace does
\* not exist yet at the only place that panics)
JobPanic(j) ==
    /\ job[j].pc = "sort"
    /\ SortPanics(j)
    /\ exportInfo' = Info(FALSE, FALSE, "Error: Export generation failed unexpectedly")
    /\ exportFile' = GuardRemove(exportFile)
    /\ sidecar' = NoSidecar
    /\ ff' = [k \in Jobs |-> [ff[k] EXCEPT !.attached = FALSE]]
    /\ job' = [job EXCEPT ![j] = [Finished(j, "panicked") EXCEPT !.killedPrior = PriorExport]]
    /\ UNCHANGED <<up, temp, hist>>
    /\ UNCHANGED storageVars
    /\ UNCHANGED cameraVars

\* lines 171-184: the workspace, named after the current second
JobMkdir(j) ==
    /\ job[j].pc = "mkdir"
    /\ temp' = [temp EXCEPT ![now] = IF ~@.exists THEN [exists |-> TRUE, segs |-> {}, concat |-> <<>>] ELSE @]
    /\ job' = [job EXCEPT ![j].pc = "copy", ![j].tempDir = now, ![j].i = 0]
    /\ UNCHANGED <<up, exportInfo, exportFile, sidecar, ff, hist>>
    /\ UNCHANGED storageVars
    /\ UNCHANGED cameraVars

JobMkdirError(j) ==
    /\ job[j].pc = "mkdir"
    /\ MayFail
    /\ hist' = Fault
    /\ exportInfo' = Info(FALSE, FALSE, "Error: Failed to create temporary directory")
    /\ job' = [job EXCEPT ![j] = Finished(j, "failed")]
    /\ UNCHANGED <<up, exportFile, sidecar, temp, ff>>
    /\ UNCHANGED storageVars
    /\ UNCHANGED cameraVars

\* os.Remove of the export file: processes that have it open keep writing
\* to the unlinked file, which no longer shows under the export path
Detached == [k \in Jobs |-> [ff[k] EXCEPT !.attached = FALSE]]

\* return of generateExportAsync from job j: the deferred functions run
Return(j, outcome) ==
    /\ job' = [job EXCEPT ![j] = Finished(j, outcome)]
    /\ temp' = ReturnTemp(temp, j)

\* line 197: the path of the i-th copy, inside the workspace
TempPathMutant(tempDir, i) == <<NoTemp, i>>
TempPath(tempDir, i) == <<tempDir, i>>

\* line 221: tempFiles = append(tempFiles, tempPath)
AppendTempMutant(tempFiles, tempPath) == <<tempPath>> \o tempFiles
AppendTemp(tempFiles, tempPath) == Append(tempFiles, tempPath)

\* lines 189-222: one iteration of the copy loop
CopyProgress(info, i, n) ==
    IF i % 10 = 0
    THEN [info EXCEPT !.progress = "Copying files...", !.processedFiles = i]
    ELSE info

JobCopy(j) ==
    /\ job[j].pc = "copy"
    /\ job[j].i < Len(job[j].mjpegFiles)
    /\ exportInfo' = CopyProgress(exportInfo, job[j].i, Len(job[j].mjpegFiles))
    /\ LET srcPath == job[j].mjpegFiles[job[j].i + 1]
           t == job[j].tempDir
       IN IF StillThere({srcPath}) = {}
          THEN \* os.Open fails: the file is skipped
               /\ job' = [job EXCEPT ![j].i = @ + 1]
               /\ UNCHANGED temp
          ELSE IF ~temp[t].exists
          THEN \* os.Create fails: the workspace is gone
               Return(j, "failed")
          ELSE /\ temp' = [temp EXCEPT ![t].segs =
                             {s \in @ : s.idx # job[j].i} \cup
                             {[idx |-> job[j].i, src |-> srcPath, modTime |-> now,
                               size |-> (CHOOSE f \in StillThere({srcPath}) : TRUE).size]}]
               /\ job' = [job EXCEPT ![j].i = @ + 1,
                                     ![j].tempFiles = AppendTemp(@, TempPath(t, job[j].i))]
    /\ UNCHANGED <<up, exportFile, sidecar, ff, hist>>
    /\ UNCHANGED storageVars
    /\ UNCHANGED cameraVars

\* lines 205-219: os.Create or io.Copy fails
JobCopyError(j) ==
    /\ job[j].pc = "copy"
    /\ job[j].i < Len(job[j].mjpegFiles)
    /\ StillThere({job[j].mjpegFiles[job[j].i + 1]}) # {}
    /\ MayFail
    /\ hist' = Fault
    /\ exportInfo' = CopyProgress(exportInfo, job[j].i, Len(job[j].mjpegFiles))
    /\ Return(j, "failed")
    /\ UNCHANGED <<up, exportFile, sidecar, ff>>
    /\ UNCHANGED storageVars
    /\ UNCHANGED cameraVars

\* lines 224-240: the loop is over
JobCopied(j) ==
    /\ job[j].pc = "copy"
    /\ job[j].i = Len(job[j].mjpegFiles)
    /\ IF Len(job[j].tempFiles) = 0
       THEN /\ exportInfo' = Info(FALSE, FALSE,
                   "Error: No videos could be copied (files may have been deleted)")
            /\ Return(j, "failed")
       ELSE /\ exportInfo' = [exportInfo EXCEPT
                   !.progress = "Copied files, preparing to encode...",
                   !.processedFiles = Len(job[j].tempFiles)]
            /\ job' = [job EXCEPT ![j].pc = "manifest"]
            /\ UNCHANGED temp
    /\ UNCHANGED <<up, exportFile, sidecar, ff, hist>>
    /\ UNCHANGED storageVars
    /\ UNCHANGED cameraVars

\* lines 242-252: the concatenation manifest
JobManifest(j) ==
    /\ job[j].pc = "manifest"
    /\ IF ~temp[job[j].tempDir].exists
       THEN Return(j, "failed")
       ELSE /\ temp' = [temp EXCEPT ![job[j].tempDir].concat = job[j].tempFiles]
            /\ job' = [job EXCEPT ![j].pc = "rmold"]
    /\ UNCHANGED <<up, exportInfo, exportFile, sidecar, ff, hist>>
    /\ UNCHANGED storageVars
    /\ UNCHANGED cameraVars

JobManifestError(j) ==
    /\ job[j].pc = "manifest"
    /\ MayFail
    /\ hist' = Fault
    /\ Return(j, "failed")
    /\ UNCHANGED <<up, exportInfo, exportFile, sidecar, ff>>
    /\ UNCHANGED storageVars
    /\ UNCHANGED cameraVars

\* lines 254-265: the export directory, then the old export is deleted
JobRemoveOld(j) ==
    /\ job[j].pc = "rmold"
    /\ exportFile' = NoFile
    /\ sidecar' = NoSidecar
    /\ ff' = Detached
    /\ job' = [job EXCEPT ![j].pc = "start", ![j].killedPrior = PriorExport]
    /\ UNCHANGED <<up, exportInfo, temp, hist>>
    /\ UNCHANGED storageVars
    /\ UNCHANGED cameraVars

JobExportDirError(j) ==
    /\ job[j].pc = "rmold"
    /\ MayFail
    /\ hist' = Fault
    /\ Return(j, "failed")
    /\ UNCHANGED <<up, exportInfo, exportFile, sidecar, ff>>
    /\ UNCHANGED storageVars
    /\ UNCHANGED cameraVars

\* lines 280-317: the transcoder is started
JobStart(j) ==
    /\ job[j].pc = "start"
    /\ exportInfo' = [exportInfo EXCEPT !.progress = "Encoding video with FFmpeg..."]
    /\ ff' = [ff EXCEPT ![j] = [state |-> "started", attached |-> FALSE]]
    /\ job' = [job EXCEPT ![j].pc = "wait"]
    /\ UNCHANGED <<up, exportFile, sidecar, temp, hist>>
    /\ UNCHANGED storageVars
    /\ UNCHANGED cameraVars

JobStartError(j) ==
    /\ job[j].pc = "start"
    /\ MayFail
    /\ hist' = Fault
    /\ exportInfo' = Info(FALSE, FALSE, "Error: Failed to start FFmpeg encoding")
    /\ Return(j, "failed")
    /\ UNCHANGED <<up, exportFile, sidecar, ff>>
    /\ UNCHANGED storageVars
    /\ UNCHANGED cameraVars

\* ------------------------------------------------------------------------
\* The transcoder process (ffmpeg -y ... -f concat -i concat_list.txt out)
\* ------------------------------------------------------------------------
\* the manifest and every file it lists are in the workspace
InputsThere(j) ==
    /\ job[j].tempDir # NoTemp
    /\ temp[job[j].tempDir].exists
    /\ temp[job[j].tempDir].concat # <<>>
    /\ \A n \in 1..Len(temp[job[j].tempDir].concat) :
         \E s \in temp[job[j].tempDir].segs : s.idx = temp[job[j].tempDir].concat[n][2]

\* the output is opened: created, or truncated if the path exists
FfmpegOpen(j) ==
    /\ ff[j].state = "started"
    /\ InputsThere(j)
    /\ exportFile' = [exists |-> TRUE, size |-> 0, by |-> job[j].aid]
    /\ ff' = [ff EXCEPT ![j] = [state |-> "writing", attached |-> TRUE]]
    /\ UNCHANGED <<up, exportInfo, sidecar, temp, job, hist>>
    /\ UNCHANGED storageVars
    /\ UNCHANGED cameraVars

FfmpegWrite(j) ==
    /\ ff[j].state = "writing"
    /\ ff[j].attached
    /\ InputsThere(j)
    /\ exportFile.size < MaxOutSize
    /\ exportFile' = [exportFile EXCEPT !.size = @ + 1]
    /\ UNCHANGED <<up, exportInfo, sidecar, temp, job, ff, hist>>
    /\ UNCHANGED storageVars
    /\ UNCHANGED cameraVars

\* exit status 0
FfmpegExit(j) ==
    /\ ff[j].state = "writing"
    /\ ff' = [ff EXCEPT ![j].state = "exited"]
    /\ UNCHANGED <<up, exportInfo, exportFile, sidecar, temp, job, hist>>
    /\ UNCHANGED storageVars
    /\ UNCHANGED cameraVars

\* exit status non-zero: an input is missing, or the encoding fails
FfmpegFail(j) ==
    /\ ff[j].state \in {"started", "writing"}
    /\ \/ ~InputsThere(j) /\ UNCHANGED hist
       \/ InputsThere(j) /\ MayFail /\ hist' = Fault
    /\ ff' = [ff EXCEPT ![j].state = "failed"]
    /\ UNCHANGED <<up, exportInfo, exportFile, sidecar, temp, job>>
    /\ UNCHANGED storageVars
    /\ UNCHANGED cameraVars

\* ------------------------------------------------------------------------
\* generateExportAsync, after the transcoder was started
\* ------------------------------------------------------------------------
\* lines 345-357: the progress ticker
JobProgress(j) ==
    /\ job[j].pc = "wait"
    /\ ff[j].state \in {"started", "writing"}
    /\ exportFile.exists
    /\ exportInfo' = [exportInfo EXCEPT !.progress = "Encoding...",
                                        !.currentSize = exportFile.size]
    /\ exportInfo' # exportInfo
    /\ UNCHANGED <<up, exportFile, sidecar, temp, job, ff, hist>>
    /\ UNCHANGED storageVars
    /\ UNCHANGED cameraVars

\* lines 331-342: the transcoder failed
JobEncodingFailed(j) ==
    /\ job[j].pc = "wait"
    /\ ff[j].state = "failed"
    /\ exportInfo' = Info(FALSE, FALSE, "Error: FFmpeg encoding failed")
    /\ ff' = [ff EXCEPT ![j] = NoCmd]
    /\ Return(j, "failed")
    /\ UNCHANGED <<up, exportFile, sidecar, hist>>
    /\ UNCHANGED storageVars
    /\ UNCHANGED cameraVars

\* lines 343-386: the transcoder succeeded; the output is verified
JobVerify(j) ==
    /\ job[j].pc = "wait"
    /\ ff[j].state = "exited"
    /\ ff' = [ff EXCEPT ![j] = NoCmd]
    /\ IF ~exportFile.exists
       THEN /\ exportInfo' = Info(FALSE, FALSE, "Error: Output file not found")
            /\ Return(j, "failed")
       ELSE IF exportFile.size = 0
       THEN /\ exportInfo' = Info(FALSE, FALSE, "Error: Output file is empty")
            /\ Return(j, "failed")
       ELSE /\ job' = [job EXCEPT ![j].pc = "save", ![j].infoSize = exportFile.size]
            /\ UNCHANGED <<exportInfo, temp>>
    /\ UNCHANGED <<up, exportFile, sidecar, hist>>
    /\ UNCHANGED storageVars
    /\ UNCHANGED cameraVars

\* lines 392-402: the record of the finished export
FinalInfoMutant(j) ==
    [available |-> TRUE, inProgress |-> TRUE, progress |-> "Complete",
     totalSegments |-> 0, processedFiles |-> 0,
     size |-> job[j].infoSize, currentSize |-> job[j].infoSize]
FinalInfo(j) ==
    [available |-> TRUE, inProgress |-> FALSE, progress |-> "Complete",
     totalSegments |-> 0, processedFiles |-> 0,
     size |-> job[j].infoSize, currentSize |-> job[j].infoSize]

\* lines 404-406: the sidecar is written
JobSave(j) ==
    /\ job[j].pc = "save"
    /\ sidecar' = [exists |-> TRUE, info |-> FinalInfo(j)]
    /\ job' = [job EXCEPT ![j].pc = "publish"]
    /\ UNCHANGED <<up, exportInfo, exportFile, temp, ff, hist>>
    /\ UNCHANGED storageVars
    /\ UNCHANGED cameraVars

\* lines 408-413: the export is announced, the job returns
JobPublish(j) ==
    /\ job[j].pc = "publish"
    /\ exportInfo' = FinalInfo(j)
    /\ Return(j, "ok")
    /\ UNCHANGED <<up, exportFile, sidecar, ff, hist>>
    /\ UNCHANGED storageVars
    /\ UNCHANGED cameraVars

\* ------------------------------------------------------------------------
\* handleDeleteExport, process crash and start
\* ------------------------------------------------------------------------
handleDeleteExportOf(h) ==
    /\ up
    /\ exportFile' = NoFile
    /\ sidecar' = NoSidecar
    /\ ff' = Detached
    /\ exportInfo' = Info(FALSE, FALSE, "")
    /\ hist' = h
    /\ UNCHANGED <<up, temp, job>>
    /\ UNCHANGED storageVars
    /\ UNCHANGED cameraVars

handleDeleteExport == handleDeleteExportOf(hist)

\* the zero time.Time of a StorageManager that has not checked yet
ZeroTime == 0 - 1

InitSM ==
    [pc |-> "idle", lastUsed |-> 0, lastChecked |-> ZeroTime, totalSize |-> 0,
     files |-> <<>>, idx |-> 1, deletedCount |-> 0]
InitRun == [clean |-> TRUE, prevDeleted |-> FALSE, done |-> FALSE, quiet |-> 0]

\* the process dies (power loss): goroutines, child processes and memory
\* are gone, the disk stays as it is
Crash ==
    /\ up
    /\ hist.crashes < MaxCrashes
    /\ up' = FALSE
    /\ hist' = [hist EXCEPT !.crashes = @ + 1, !.crashedInProgress = (exportInfo.inProgress /\ ActiveJobs # {})]
    /\ job' = [j \in Jobs |-> IdleJob]
    /\ ff' = [j \in Jobs |-> NoCmd]
    /\ exportInfo' = Info(FALSE, FALSE, "")
    /\ sm' = InitSM
    /\ run' = InitRun
    /\ UNCHANGED <<exportFile, sidecar, temp, now, archive, recording>>
    /\ UNCHANGED cameraVars

checkExistingExportMutant ==
    /\ temp' = CleanupTempExportDirs(temp)
    /\ IF exportFile.exists /\ sidecar.exists
       THEN IF sidecar.info.inProgress
            THEN /\ exportInfo' = [sidecar.info EXCEPT !.size = exportFile.size,
                                                  !.available = TRUE]
                 /\ UNCHANGED <<exportFile, sidecar>>
            ELSE /\ exportFile' = NoFile
                 /\ sidecar' = NoSidecar
                 /\ exportInfo' = Info(FALSE, FALSE, "Previous export was interrupted")
       ELSE /\ exportInfo' = Info(FALSE, FALSE, "")
            /\ UNCHANGED <<exportFile, sidecar>>
\* checkExistingExport, called by NewAPIServer on exportInfo = {Available: false}
checkExistingExport ==
    /\ temp' = CleanupTempExportDirs(temp)
    /\ IF exportFile.exists /\ sidecar.exists
       THEN IF ~sidecar.info.inProgress
            THEN /\ exportInfo' = [sidecar.info EXCEPT !.size = exportFile.size,
                                                  !.available = TRUE]
                 /\ UNCHANGED <<exportFile, sidecar>>
            ELSE /\ exportFile' = NoFile
                 /\ sidecar' = NoSidecar
                 /\ exportInfo' = Info(FALSE, FALSE, "Previous export was interrupted")
       ELSE /\ exportInfo' = Info(FALSE, FALSE, "")
            /\ UNCHANGED <<exportFile, sidecar>>

\* the process is started again: NewStorageManager, NewAPIServer
Startup ==
    /\ ~up
    /\ up' = TRUE
    /\ checkExistingExport
    /\ UNCHANGED <<job, ff, hist>>
    /\ UNCHANGED storageVars
    /\ UNCHANGED cameraVars

TickExport ==
    /\ now < MaxExportTime
    /\ now' = now + 1
    /\ UNCHANGED <<archive, recording, sm, run>>
    /\ UNCHANGED exportVars
    /\ UNCHANGED cameraVars

\* ------------------------------------------------------------------------
\* CameraManager: the camera maps, RestartWithConfigs and the readers
\* ------------------------------------------------------------------------
\* CameraConfig, reduced to the fields the manager looks at
Configs == [id : Cameras, enabled : BOOLEAN]

\* configuration lists: one or two cameras with different ids
ConfigLists ==
    {<<c>> : c \in Configs} \cup
    {l \in {<<c, d>> : c \in Configs, d \in Configs} : l[1].id # l[2].id}

Enabled(configs) == {configs[n].id : n \in {k \in 1..Len(configs) : configs[k].enabled}}

NoRead == [op |-> "none", id |-> None, found |-> FALSE, set |-> {}, during |-> FALSE]

\* NewCameraManager: the maps hold the enabled cameras of the configuration
NewCameraManager(configs) ==
    [cameras |-> Enabled(configs), streamManagers |-> Enabled(configs),
     pc |-> "idle", configs |-> <<>>, i |-> 1, restarts |-> 0,
     before |-> Enabled(configs), after |-> Enabled(configs),
     result |-> "none", read |-> NoRead]

DefaultConfigs ==
    <<[id |-> "front", enabled |-> TRUE], [id |-> "rear", enabled |-> TRUE]>>

CmUnchanged ==
    /\ UNCHANGED <<cams, stream, extr, web>>
    /\ UNCHANGED storageVars
    /\ UNCHANGED exportVars

\* lines 222-232: the old cameras and stream managers are collected
RestartWithConfigs(configs) ==
    /\ cm.pc = "idle"
    /\ cm.restarts < MaxRestarts
    /\ cm' = [cm EXCEPT !.pc = "stop", !.configs = configs, !.i = 1,
                        !.restarts = @ + 1, !.result = "none",
                        !.before = cm.cameras, !.after = Enabled(configs),
                        !.read = NoRead]
    /\ CmUnchanged

\* lines 234-240: they are stopped, outside the lock
RestartStopOld ==
    /\ cm.pc = "stop"
    /\ cm' = [cm EXCEPT !.pc = "clear"]
    /\ CmUnchanged

\* lines 242-248: under the write lock both maps are replaced by empty maps
RestartClear ==
    /\ cm.pc = "clear"
    /\ cm' = [cm EXCEPT !.pc = "init", !.cameras = {}, !.streamManagers = {}]
    /\ CmUnchanged

\* initializeCameras, lines 167-183, one configuration: a disabled camera is
\* skipped, an enabled one is put into cm.cameras; the lock is not held
InitializeCamera ==
    /\ cm.pc = "init"
    /\ cm.i <= Len(cm.configs)
    /\ IF cm.configs[cm.i].enabled
       THEN cm' = [cm EXCEPT !.cameras = @ \cup {cm.configs[cm.i].id}, !.pc = "initsm"]
       ELSE cm' = [cm EXCEPT !.i = @ + 1]
    /\ CmUnchanged

\* line 183: then its stream manager is put into cm.streamManagers
InitializeStreamManager ==
    /\ cm.pc = "initsm"
    /\ cm' = [cm EXCEPT !.streamManagers = @ \cup {cm.configs[cm.i].id},
                        !.i = @ + 1, !.pc = "init"]
    /\ CmUnchanged

\* lines 188-192 and 251-253: no enabled camera is an error
InitializeReturn ==
    /\ cm.pc = "init"
    /\ cm.i > Len(cm.configs)
    /\ IF cm.cameras = {}
       THEN cm' = [cm EXCEPT !.pc = "idle", !.result = "error"]
       ELSE cm' = [cm EXCEPT !.pc = "startall"]
    /\ CmUnchanged

\* lines 255-258: the capture loops of the new cameras are started
RestartStartAll ==
    /\ cm.pc = "startall"
    /\ cm' = [cm EXCEPT !.pc = "idle", !.result = "ok"]
    /\ CmUnchanged

\* what a reader gets, as a function of the maps it reads under the read lock
Observe(op, id, found, set) ==
    [op |-> op, id |-> id, found |-> found, set |-> set, during |-> (cm.pc # "idle")]

ListCameras ==
    /\ cm' = [cm EXCEPT !.read = Observe("ListCameras", None, FALSE, cm.cameras)]
    /\ cm' # cm
    /\ CmUnchanged

GetCamera(id) ==
    /\ cm' = [cm EXCEPT !.read = Observe("GetCamera", id, id \in cm.cameras, {})]
    /\ cm' # cm
    /\ CmUnchanged

GetStreamManager(id) ==
    /\ cm' = [cm EXCEPT !.read = Observe("GetStreamManager", id, id \in cm.streamManagers, {})]
    /\ cm' # cm
    /\ CmUnchanged

\* the first key the map iteration yields, "" for an empty map
GetDefaultCameraID ==
    /\ \/ \E id \in cm.cameras :
            cm' = [cm EXCEPT !.read = Observe("GetDefaultCameraID", id, TRUE, {})]
       \/ /\ cm.cameras = {}
          /\ cm' = [cm EXCEPT !.read = Observe("GetDefaultCameraID", "", FALSE, {})]
    /\ cm' # cm
    /\ CmUnchanged

\* ------------------------------------------------------------------------
\* Camera: the capture loop (Camera.Start), its encoder process, Camera.Stop
\* ------------------------------------------------------------------------
\* a Camera as NewCamera returns it: done open, no command; its goroutine
\* and its Stop have not run
NewCamera ==
    [pc |-> "new", done |-> FALSE, recordCmd |-> "nil", proc |-> "none",
     lastErr |-> FALSE, stop |-> "idle", ret |-> "none", failed |-> FALSE]

InitCam == [c \in Cameras |-> NewCamera]

CamUnchanged ==
    /\ UNCHANGED <<cm, stream, extr, web>>
    /\ UNCHANGED storageVars
    /\ UNCHANGED exportVars

\* startCamera: the goroutine calls cam.Start(cameraVideoDir)
CameraStart(c) ==
    /\ cams[c].pc = "new"
    /\ cams' = [cams EXCEPT ![c].pc = "mkdir"]
    /\ CamUnchanged

\* lines 223-228: the camera directory is created
CameraMkdir(c) ==
    /\ cams[c].pc = "mkdir"
    /\ cams' = [cams EXCEPT ![c].pc = "check"]
    /\ CamUnchanged

\* lines 223-225: it cannot be created, Start returns the error
CameraMkdirError(c) ==
    /\ cams[c].pc = "mkdir"
    /\ cams' = [cams EXCEPT ![c].pc = "returned", ![c].ret = "error"]
    /\ CamUnchanged

\* whether the loop goes on after a segment (lines 243-256): an error of the
\* segment is only logged, the loop ends when done is closed
LoopContinuesMutant(done, err) == ~done /\ ~err
LoopContinues(done, err) == ~done

\* lines 230-235: the select at the top of the loop
CameraCheckDone(c) ==
    /\ cams[c].pc = "check"
    /\ cams' = IF cams[c].done
               THEN [cams EXCEPT ![c].pc = "returned", ![c].ret = "nil"]
               ELSE [cams EXCEPT ![c].pc = "cmd"]
    /\ CamUnchanged

\* recording.go lines 77-86: the command is built and stored in recordCmd
CameraCommand(c) ==
    /\ cams[c].pc = "cmd"
    /\ cams' = [cams EXCEPT ![c].pc = "start", ![c].recordCmd = "set"]
    /\ CamUnchanged

\* recording.go lines 79-82: StderrPipe fails
CameraPipeError(c) ==
    /\ cams[c].pc = "cmd"
    /\ cams' = [cams EXCEPT ![c].pc = "after", ![c].lastErr = TRUE, ![c].failed = TRUE]
    /\ CamUnchanged

\* recording.go line 88: the encoder process is started
CameraProcStart(c) ==
    /\ cams[c].pc = "start"
    /\ cams' = [cams EXCEPT ![c].pc = "wait", ![c].proc = "running"]
    /\ CamUnchanged

\* recording.go lines 88-93: it cannot be started
CameraProcStartError(c) ==
    /\ cams[c].pc = "start"
    /\ cams' = [cams EXCEPT ![c].pc = "after", ![c].recordCmd = "nil",
                            ![c].lastErr = TRUE, ![c].failed = TRUE]
    /\ CamUnchanged

\* the encoder process ends by itself: segment complete, or a failure
EncoderExit(c) ==
    /\ cams[c].proc = "running"
    /\ \E status \in {"exited", "failed"} : cams' = [cams EXCEPT ![c].proc = status]
    /\ CamUnchanged

\* recording.go lines 111-121: Wait returns, recordCmd is cleared
CameraWaitReturns(c) ==
    /\ cams[c].pc = "wait"
    /\ cams[c].proc \in {"exited", "failed", "killed"}
    /\ cams' = [cams EXCEPT ![c].pc = "after", ![c].recordCmd = "nil", ![c].proc = "none",
                            ![c].lastErr = (cams[c].proc # "exited"),
                            ![c].failed = (@ \/ cams[c].proc = "failed")]
    /\ CamUnchanged

\* lines 243-256: the error is logged, then the select at the end of the loop
CameraAfterSegment(c) ==
    /\ cams[c].pc = "after"
    /\ cams' = IF LoopContinues(cams[c].done, cams[c].lastErr)
               THEN [cams EXCEPT ![c].pc = "check", ![c].lastErr = FALSE]
               ELSE [cams EXCEPT ![c].pc = "returned", ![c].ret = "nil", ![c].lastErr = FALSE]
    /\ CamUnchanged

\* Camera.Stop, line 142: close(c.done)
CameraStop(c) ==
    /\ cams[c].stop = "idle"
    /\ cams' = [cams EXCEPT ![c].stop = "closed", ![c].done = TRUE]
    /\ CamUnchanged

\* Camera.Stop, lines 143-147: a command whose process exists is killed
CameraStopKill(c) ==
    /\ cams[c].stop = "closed"
    /\ cams' = [cams EXCEPT ![c].stop = "returned",
                            ![c].proc = IF cams[c].recordCmd = "set" /\ @ = "running"
                                        THEN "killed" ELSE @]
    /\ CamUnchanged

\* ------------------------------------------------------------------------
\* StreamManager: the cache of the latest frame
\* ------------------------------------------------------------------------
Writers == 1..MaxWriters
Readers == 1..MaxReaders
Bytes == 1..MaxByte

\* the byte slices of up to MaxFrameLen bytes, the empty one included
Frames == UNION {[1..n -> Bytes] : n \in 0..MaxFrameLen}

\* a slice is a reference and a length: ref 0 is a buffer of its own (made by
\* make and filled by copy), ref w > 0 is the input buffer of caller w
OwnBuffer(data) == [ref |-> 0, data |-> data]

\* the bytes of a slice
Content(slice) == IF slice.ref = 0 THEN slice.data ELSE stream.writers[slice.ref].buf

InitStream ==
    [latestFrame |-> OwnBuffer(<<>>),
     lock |-> [writer |-> 0, readers |-> 0],
     writers |-> [w \in Writers |-> [pc |-> "idle", buf |-> <<>>, mutated |-> FALSE]],
     readers |-> [r \in Readers |-> [pc |-> "idle", none |-> TRUE, data |-> <<>>,
                                     mutated |-> FALSE]],
     completed |-> <<>>,
     done |-> FALSE]

StreamUnchanged ==
    /\ UNCHANGED <<cm, cams, extr, web>>
    /\ UNCHANGED storageVars
    /\ UNCHANGED exportVars

\* a caller calls UpdateFrame(frameData) with its buffer
UpdateFrameCall(w, frameData) ==
    /\ stream.writers[w].pc = "idle"
    /\ stream.latestFrame.ref # w
    /\ stream' = [stream EXCEPT !.writers[w] = [pc |-> "lock", buf |-> frameData,
                                               mutated |-> FALSE]]
    /\ StreamUnchanged

\* line 39: sm.mu.Lock()
UpdateFrameLock(w) ==
    /\ stream.writers[w].pc = "lock"
    /\ stream.lock = [writer |-> 0, readers |-> 0]
    /\ stream' = [stream EXCEPT !.lock.writer = w, !.writers[w].pc = "store"]
    /\ StreamUnchanged

\* lines 42-43: a new buffer is made and the frame is copied into it
StoredFrameMutant(w, frameData) == [ref |-> w, data |-> <<>>]
StoredFrame(w, frameData) == OwnBuffer(frameData)

\* line 41: len(frameData) > 0
HasDataMutant(frameData) == TRUE
HasData(frameData) == Len(frameData) > 0

\* lines 41-44: an empty frame is ignored
UpdateFrameStore(w) ==
    /\ stream.writers[w].pc = "store"
    /\ stream' = [stream EXCEPT
                    !.latestFrame = IF HasData(stream.writers[w].buf)
                                    THEN StoredFrame(w, stream.writers[w].buf)
                                    ELSE @,
                    !.writers[w].pc = "unlock"]
    /\ StreamUnchanged

\* line 40: the deferred Unlock; the update is complete
UpdateFrameUnlock(w) ==
    /\ stream.writers[w].pc = "unlock"
    /\ stream' = [stream EXCEPT
                    !.lock.writer = 0,
                    !.writers[w].pc = "idle",
                    !.completed = IF Len(stream.writers[w].buf) > 0
                                  THEN stream.writers[w].buf ELSE @]
    /\ StreamUnchanged

\* s with its i-th byte replaced by another byte
Altered(s, i) == [s EXCEPT ![i] = IF @ = MaxByte THEN 1 ELSE @ + 1]

\* after UpdateFrame has returned, the caller changes its buffer
CallerChangesBuffer(w) ==
    /\ stream.writers[w].pc = "idle"
    /\ ~stream.writers[w].mutated
    /\ \E i \in 1..Len(stream.writers[w].buf) :
          stream' = [stream EXCEPT !.writers[w].buf = Altered(@, i),
                                   !.writers[w].mutated = TRUE]
    /\ StreamUnchanged

\* line 65: sm.mu.RLock()
GetLatestFrameLock(r) ==
    /\ stream.readers[r].pc = "idle"
    /\ stream.lock.writer = 0
    /\ stream' = [stream EXCEPT !.lock.readers = @ + 1,
                                !.readers[r] = [pc |-> "copy", none |-> TRUE, data |-> <<>>,
                                                mutated |-> FALSE]]
    /\ StreamUnchanged

\* lines 68-74: nil for an empty cache, else a copy in a new buffer
GetLatestFrameCopy(r) ==
    /\ stream.readers[r].pc = "copy"
    /\ stream' = [stream EXCEPT
                    !.readers[r].pc = "unlock",
                    !.readers[r].none = (Len(Content(stream.latestFrame)) = 0),
                    !.readers[r].data = Content(stream.latestFrame)]
    /\ StreamUnchanged

\* line 66: the deferred RUnlock; the caller has the frame
GetLatestFrameUnlock(r) ==
    /\ stream.readers[r].pc = "unlock"
    /\ stream' = [stream EXCEPT !.lock.readers = @ - 1, !.readers[r].pc = "got"]
    /\ StreamUnchanged

\* the caller changes the buffer it was given
ReaderChangesBuffer(r) ==
    /\ stream.readers[r].pc = "got"
    /\ ~stream.readers[r].mutated
    /\ \E i \in 1..Len(stream.readers[r].data) :
          stream' = [stream EXCEPT !.readers[r].data = Altered(@, i),
                                   !.readers[r].mutated = TRUE]
    /\ StreamUnchanged

\* the caller is done with the frame
ReaderDone(r) ==
    /\ stream.readers[r].pc = "got"
    /\ stream' = [stream EXCEPT !.readers[r] = [pc |-> "idle", none |-> TRUE, data |-> <<>>,
                                               mutated |-> FALSE]]
    /\ StreamUnchanged

\* lines 31-35: Stop closes done once (stopOnce) and touches nothing else; the
\* capture loop and the frame-refresh task are the callers of UpdateFrame,
\* which may end or go on after it
StreamManagerStop ==
    /\ ~stream.done
    /\ stream' = [stream EXCEPT !.done = TRUE]
    /\ StreamUnchanged

\* ------------------------------------------------------------------------
\* Frame extraction from a capture file
\* ------------------------------------------------------------------------
StartMarker == <<255, 216>>
EndMarker == <<255, 217>>

\* byte values a frame is written with: both bytes of every marker and one other
FileBytes == {0, 216, 217, 255}

NoFrame == [kind |-> "none", data |-> <<>>]
Panicked == [kind |-> "panic", data |-> <<>>]
NotCalled == [kind |-> "idle", data |-> <<>>]
Frame(data) == [kind |-> "frame", data |-> data]

\* the greatest element of a non-empty set of integers
Highest(S) == CHOOSE i \in S : \A j \in S : j <= i

\* buf[lo:hi] of a slice whose first index is 0
Slice(buf, lo, hi) == SubSeq(buf, lo + 1, hi)

\* lines 115-120: index after the last end marker of buf, -1 if there is none
FindJpegEnd(buf) ==
    LET ends == {i \in 1..(Len(buf) - 1) : buf[i + 1] = EndMarker[2] /\ buf[i] = EndMarker[1]}
    IN IF ends = {} THEN -1 ELSE Highest(ends) + 1

\* lines 128-131
SearchLimit(jpegEnd) == IF jpegEnd - MaxFrameBytes < 0 THEN 0 ELSE jpegEnd - MaxFrameBytes

\* lines 133-145: the loop stops at the highest i with buf[i] the second byte
\* of a start marker; buf[i-1] is read only then, and with i = 0 that read is
\* out of range
FindJpegStart(buf, jpegEnd) ==
    LET hits == {i \in SearchLimit(jpegEnd)..(jpegEnd - 2) :
                    /\ buf[i + 1] = StartMarker[2]
                    /\ (i = 0 \/ buf[i] = StartMarker[1])}
    IN IF hits = {} THEN NoFrame
       ELSE IF Highest(hits) = 0 THEN Panicked
       ELSE Frame(Slice(buf, Highest(hits) - 1, jpegEnd))

\* lines 72-146, for a file that can be opened and read
extractLastJPEGFromMJPEG(file) ==
    LET fileSize == Len(file)
        readSize == IF ReadWindow > fileSize THEN fileSize ELSE ReadWindow
        startPos == fileSize - readSize
        buf == Slice(file, startPos, fileSize)
        jpegEnd == FindJpegEnd(buf)
    IN IF fileSize < 4 THEN NoFrame
       ELSE IF jpegEnd = -1 THEN NoFrame
       ELSE FindJpegStart(buf, jpegEnd)

\* file: the capture file; cur: the bytes of the frame the encoder is
\* writing; last: the last frame written completely; result: what the
\* extraction returned for this file
InitExtr == [file |-> <<>>, cur |-> <<>>, last |-> <<>>, result |-> NotCalled]

ExtrUnchanged ==
    /\ UNCHANGED <<cm, cams, stream, web>>
    /\ UNCHANGED storageVars
    /\ UNCHANGED exportVars

\* the next byte the encoder may write: the start marker, then bytes that
\* form no marker inside the frame, the end marker closing the frame
NextByteOk(cur, b) ==
    IF Len(cur) < 2 THEN b = StartMarker[Len(cur) + 1]
    ELSE ~(cur[Len(cur)] = StartMarker[1] /\ b = StartMarker[2])

FrameComplete(cur, b) == Len(cur) >= 2 /\ cur[Len(cur)] = EndMarker[1] /\ b = EndMarker[2]

\* the encoder appends one byte to the capture file
EncoderWrite(b) ==
    /\ Len(extr.file) < MaxFileLen
    /\ NextByteOk(extr.cur, b)
    /\ extr' = [file |-> Append(extr.file, b),
                cur |-> IF FrameComplete(extr.cur, b) THEN <<>> ELSE Append(extr.cur, b),
                last |-> IF FrameComplete(extr.cur, b) THEN Append(extr.cur, b) ELSE extr.last,
                result |-> NotCalled]
    /\ ExtrUnchanged

\* the frame of the file as it is now is extracted
ExtractFrame ==
    /\ extr.result = NotCalled
    /\ extr' = [extr EXCEPT !.result = extractLastJPEGFromMJPEG(extr.file)]
    /\ ExtrUnchanged


\* ------------------------------------------------------------------------
\* Live frames: the refresh task of a camera, the per-camera caches and the
\* single-frame request
\* ------------------------------------------------------------------------
Gens == 0..MaxRestarts

\* RestartWithConfigs replaces every Camera and StreamManager by a new
\* object; the objects in the maps are those of the last restart that has
\* cleared the maps
CurrentGen == IF cm.pc \in {"stop", "clear"} THEN cm.restarts - 1 ELSE cm.restarts

\* the bytes of a capture file: the encoder writes one complete frame per
\* write step, the k-th frame carrying k
FrameNo(k) == StartMarker \o <<k>> \o EndMarker

RECURSIVE FramesUpTo(_)
FramesUpTo(n) == IF n = 0 THEN <<>> ELSE FramesUpTo(n - 1) \o FrameNo(n)

ContentOf(f) == FramesUpTo(f.size \div SizeQuantum)

NoPath == <<>>

\* ExtractFrameFromLatestSegment, lines 24-57: of the .mjpeg files of the
\* directory, listed in name order, the first with the newest modification
\* time; NoPath if there is none
LatestFile(c) ==
    LET files == {f \in archive : f.dir = CameraDirName(c) /\ f.ext = ".mjpeg"}
    IN IF files = {} THEN NoPath
       ELSE Path(CHOOSE f \in files : \A g \in files :
                    \/ g.modTime < f.modTime
                    \/ g.modTime = f.modTime /\ f.name[3] <= g.name[3])

\* lines 61-67: the file is opened and its last frame extracted; a file that
\* is gone cannot be opened
ExtractFrom(path) ==
    LET onDisk == {f \in archive : Path(f) = path}
    IN IF onDisk = {} THEN NoFrame
       ELSE extractLastJPEGFromMJPEG(ContentOf(CHOOSE f \in onDisk : TRUE))

\* why an extraction had no file to read a frame from
CaseOf(path) ==
    IF path = NoPath THEN "nofile"
    ELSE IF {f \in archive : Path(f) = path} = {} THEN "vanished"
    ELSE IF \E f \in archive : Path(f) = path /\ f.size = 0 THEN "empty"
    ELSE "data"

\* ------------------------------------------------------------------------
\* Camera objects of one camera id, the goroutines that start and restart
\* them, their frame-refresh goroutines, and the viewers of the stream
\* ------------------------------------------------------------------------
Objs == 1..MaxObjects
NoObj == 0
\* thread 0 is the goroutine of main.go that calls CameraManager.Start, the
\* others are HTTP handlers that call RestartWithConfigs
Threads == 0..MaxThreads
TaskSlots == 1..MaxTasks
Viewers == 1..MaxViewers

\* a Camera with its StreamManager as initializeCameras creates them: done
\* open, cache empty, no frame-refresh goroutine
NoTask == [pc |-> "none", frame |-> 0]
NewObject == [done |-> FALSE, frame |-> 0, task |-> [k \in TaskSlots |-> NoTask]]

NoThread == [pc |-> "idle", old |-> NoObj, snap |-> NoObj]
NoViewer == [pc |-> "idle", mgr |-> NoObj, noFrameCount |-> 0, cancelled |-> FALSE,
             tick |-> FALSE, last |-> 0, misses |-> 0, why |-> "none"]

\* after NewCameraManager: the first object is in the maps, CameraManager.Start
\* has not yet taken its snapshot
InitLive ==
    [map |-> 1, next |-> 2, restarts |-> 0, produced |-> 0,
     obj |-> [o \in Objs |-> NewObject],
     thr |-> [r \in Threads |-> IF r = 0 THEN [NoThread EXCEPT !.pc = "snapshot"]
                                ELSE NoThread],
     view |-> [v \in Viewers |-> NoViewer]]

NoRequest == [pc |-> "idle", camera |-> "", id |-> "", mgr |-> 0, status |-> 0,
              configured |-> FALSE]

NoStats == [pc |-> "idle", used |-> 0, result |-> 0, cached |-> FALSE]

InitWeb ==
    [cache |-> [c \in Cameras |-> [g \in Gens |-> <<>>]],
     refresh |-> [c \in Cameras |-> [pc |-> "tick", file |-> NoPath, gen |-> 0]],
     req |-> NoRequest,
     stats |-> NoStats,
     live |-> InitLive]

WebUnchanged ==
    /\ UNCHANGED <<cm, cams, stream, extr>>
    /\ UNCHANGED storageVars
    /\ UNCHANGED exportVars

\* the capture loop of the camera object in the map is running: it was
\* started and its done channel is open
Running(c) == c \in cm.cameras /\ cm.pc \in {"idle", "stop"}

\* backgroundFrameUpdate, a tick: the latest capture file is looked up
RefreshList(c) ==
    /\ Running(c)
    /\ web.refresh[c].pc = "tick"
    /\ web' = [web EXCEPT !.refresh[c] =
                 IF LatestFile(c) = NoPath
                 THEN [pc |-> "tick", file |-> NoPath, gen |-> 0]
                 ELSE [pc |-> "open", file |-> LatestFile(c), gen |-> CurrentGen]]
    /\ WebUnchanged

\* lines 264-277 of Camera: the frame is extracted and, if there is one,
\* stored in the cache of the camera's stream manager
RefreshExtract(c) ==
    /\ web.refresh[c].pc = "open"
    /\ LET r == web.refresh[c]
           result == ExtractFrom(r.file)
       IN web' = [web EXCEPT
                    !.refresh[c] = [pc |-> "tick", file |-> NoPath, gen |-> 0],
                    !.cache[c][r.gen] = IF Len(result.data) > 0 THEN result.data ELSE @]
    /\ WebUnchanged

\* GET /api/stream/frame?camera=<camera>
handleStreamFrame(camera) ==
    /\ web.req.pc = "idle"
    /\ web' = [web EXCEPT !.req = [NoRequest EXCEPT !.pc = "resolve", !.camera = camera]]
    /\ WebUnchanged

\* handler lines 12-15: without the parameter, the default camera
FrameResolve ==
    /\ web.req.pc = "resolve"
    /\ \E id \in IF web.req.camera # "" THEN {web.req.camera}
                 ELSE IF cm.cameras = {} THEN {""} ELSE cm.cameras :
          web' = [web EXCEPT !.req.pc = "lookup", !.req.id = id]
    /\ WebUnchanged

\* handler lines 18-22: the stream manager of the camera, or 404
FrameLookup ==
    /\ web.req.pc = "lookup"
    /\ web' = [web EXCEPT !.req =
                 [@ EXCEPT !.configured = (web.req.id \in cm.before \cap cm.after),
                           !.pc = IF web.req.id \in cm.streamManagers THEN "get" ELSE "done",
                           !.mgr = CurrentGen,
                           !.status = IF web.req.id \in cm.streamManagers THEN 0 ELSE 404]]
    /\ WebUnchanged

\* the status for a cached frame of that length
FrameStatus(len) == IF len = 0 THEN 503 ELSE 200

\* handler lines 25-37: the cached frame, or 503 while there is none
FrameGet ==
    /\ web.req.pc = "get"
    /\ web' = [web EXCEPT !.req.pc = "done",
                          !.req.status = FrameStatus(Len(web.cache[web.req.id][web.req.mgr]))]
    /\ WebUnchanged

\* the response is sent
FrameDone ==
    /\ web.req.pc = "done"
    /\ web' = [web EXCEPT !.req = NoRequest]
    /\ WebUnchanged

\* ------------------------------------------------------------------------
\* enforceStorageCap with I/O errors
\* ------------------------------------------------------------------------
\* lines 81-84: os.ReadDir fails for one camera directory
EnforceScanDirError ==
    /\ MayFail
    /\ hist' = Fault
    /\ \E c \in Cameras : EnforceScanOf({CameraDirName(c)})

\* lines 128-136: os.Remove fails; nothing is subtracted and the loop goes on
\* with the next file
RemoveFailedMutant(s) == [s EXCEPT !.pc = "idle"]
RemoveFailed(s) == [s EXCEPT !.idx = @ + 1]

EnforceDeleteError ==
    /\ up
    /\ sm.pc = "delete"
    /\ KeepDeleting(sm.files, sm.idx, sm.totalSize, sm.deletedCount)
    /\ MayFail
    /\ hist' = Fault
    /\ sm' = RemoveFailed(sm)
    /\ UNCHANGED <<now, archive, recording, run>>
    /\ UNCHANGED <<up, exportInfo, exportFile, sidecar, temp, job, ff>>
    /\ UNCHANGED cameraVars

\* ------------------------------------------------------------------------
\* StorageManager.GetStorageStats, called by the status handler
\* ------------------------------------------------------------------------
\* line 152: the cached value is recent and not zero
CacheFresh ==
    /\ sm.lastChecked # ZeroTime
    /\ now - sm.lastChecked < FreshSeconds
    /\ sm.lastUsed > 0

\* lines 151-155: the answer from the cache, or the walk is started
GetStorageStats ==
    /\ up
    /\ web.stats.pc = "idle"
    /\ web' = [web EXCEPT !.stats =
                 IF CacheFresh
                 THEN [pc |-> "done", used |-> 0, result |-> sm.lastUsed, cached |-> TRUE]
                 ELSE [NoStats EXCEPT !.pc = "walk"]]
    /\ WebUnchanged

\* lines 158-194: the video files of the camera directories are summed up
StatsWalk ==
    /\ web.stats.pc = "walk"
    /\ web' = [web EXCEPT !.stats.pc = "store",
                          !.stats.used = SumSizes({FileInfo(f) : f \in ScannedFiles})]
    /\ WebUnchanged

\* lines 196-201: the sum is cached and returned
StatsStore ==
    /\ web.stats.pc = "store"
    /\ sm' = [sm EXCEPT !.lastUsed = web.stats.used, !.lastChecked = now]
    /\ web' = [web EXCEPT !.stats.pc = "done", !.stats.result = web.stats.used]
    /\ UNCHANGED <<now, archive, recording, run>>
    /\ UNCHANGED exportVars
    /\ UNCHANGED <<cm, cams, stream, extr>>

\* the status response is sent
StatsDone ==
    /\ web.stats.pc = "done"
    /\ web' = [web EXCEPT !.stats = NoStats]
    /\ WebUnchanged

\* ------------------------------------------------------------------------
\* CameraManager.Start and RestartWithConfigs as concurrent goroutines
\* (main.go line 93, handler_config.go lines 145, 204, 261: no lock is held
\* around the calls)
\* ------------------------------------------------------------------------
LiveStep(l) ==
    /\ web' = [web EXCEPT !.live = l]
    /\ WebUnchanged

\* libcamera.go lines 222-232: the objects in the maps are collected
ThreadRestart(r) ==
    /\ r # 0
    /\ web.live.thr[r].pc = "idle"
    /\ web.live.restarts < MaxRestarts
    /\ LiveStep([web.live EXCEPT !.restarts = @ + 1,
                                 !.thr[r] = [pc |-> "stop", old |-> web.live.map,
                                             snap |-> NoObj]])

\* lines 234-240 with Camera.Stop (recording.go 141-148): close(c.done), a
\* second close of the same channel panics
ThreadStopOld(r) ==
    /\ web.live.thr[r].pc = "stop"
    /\ LET old == web.live.thr[r].old
       IN LiveStep(IF old = NoObj
                   THEN [web.live EXCEPT !.thr[r].pc = "clear"]
                   ELSE IF web.live.obj[old].done
                   THEN [web.live EXCEPT !.thr[r].pc = "panic"]
                   ELSE [web.live EXCEPT !.thr[r].pc = "clear",
                                         !.obj[old].done = TRUE])

\* lines 242-248: the maps are replaced by empty maps
ThreadClear(r) ==
    /\ web.live.thr[r].pc = "clear"
    /\ LiveStep([web.live EXCEPT !.thr[r].pc = "init", !.map = NoObj])

\* lines 250-253 with initializeCameras (167-183): a new Camera with a new
\* StreamManager is put into the maps
ThreadInitialize(r) ==
    /\ web.live.thr[r].pc = "init"
    /\ web.live.next <= MaxObjects
    /\ LiveStep([web.live EXCEPT !.thr[r].pc = "snapshot",
                                 !.map = web.live.next,
                                 !.next = @ + 1])

\* startAllCameras, lines 263-269: the cameras in the map are collected
startAllCameras(r) ==
    /\ web.live.thr[r].pc = "snapshot"
    /\ LiveStep([web.live EXCEPT !.thr[r].pc = "start", !.thr[r].snap = web.live.map])

\* where a caller of startAllCameras goes on: CameraManager.Start waits for
\* stopCh, RestartWithConfigs returns
AfterStart(r) == IF r = 0 THEN "wait" ELSE "idle"

FreeSlots(o) == {k \in TaskSlots : web.live.obj[o].task[k].pc = "none"}

\* startCamera (275-285) and Camera.Start (frame_extraction.go 222-228):
\* every collected camera gets its goroutine, which starts the camera's
\* frame-refresh goroutine
startCamera(r) ==
    /\ web.live.thr[r].pc = "start"
    /\ LET o == web.live.thr[r].snap
       IN IF o = NoObj
          THEN LiveStep([web.live EXCEPT !.thr[r].pc = AfterStart(r)])
          ELSE \E k \in FreeSlots(o) :
                  /\ \A j \in FreeSlots(o) : k <= j
                  /\ LiveStep([web.live EXCEPT !.thr[r].pc = AfterStart(r),
                                               !.obj[o].task[k].pc = "tick"])

\* ------------------------------------------------------------------------
\* Camera.backgroundFrameUpdate (frame_extraction.go 263-279)
\* ------------------------------------------------------------------------
\* the encoder of a started camera appends a frame to the newest segment
Produce ==
    /\ web.live.produced < MaxFrames
    /\ \E o \in Objs : ~web.live.obj[o].done /\ FreeSlots(o) # TaskSlots
    /\ LiveStep([web.live EXCEPT !.produced = @ + 1])

\* the select takes <-c.done
TaskReturn(o, k) ==
    /\ web.live.obj[o].task[k].pc = "tick"
    /\ web.live.obj[o].done
    /\ LiveStep([web.live EXCEPT !.obj[o].task[k].pc = "exited"])

\* the select takes the tick: the last frame of the camera's directory is
\* extracted
TaskExtract(o, k) ==
    /\ web.live.obj[o].task[k].pc = "tick"
    /\ web.live.produced > 0
    /\ LiveStep([web.live EXCEPT !.obj[o].task[k] =
                    [pc |-> "store", frame |-> web.live.produced]])

\* c.streamManager.UpdateFrame(frameData)
TaskStore(o, k) ==
    /\ web.live.obj[o].task[k].pc = "store"
    /\ LiveStep([web.live EXCEPT !.obj[o].frame = web.live.obj[o].task[k].frame,
                                 !.obj[o].task[k].pc = "tick"])

\* ------------------------------------------------------------------------
\* APIServer.handleStreamMJPEG (handler_stream.go 41-123)
\* ------------------------------------------------------------------------
\* lines 41-73: the stream manager is looked up, the ticker is created
handleStreamMJPEG(v) ==
    /\ web.live.view[v].pc = "idle"
    /\ LiveStep([web.live EXCEPT !.view[v] =
                    IF web.live.map = NoObj
                    THEN [NoViewer EXCEPT !.pc = "returned", !.why = "notfound"]
                    ELSE [NoViewer EXCEPT !.pc = "select", !.mgr = web.live.map]])

\* the ticker puts a tick into its channel (capacity one)
TickerFire(v) ==
    /\ web.live.view[v].pc = "select"
    /\ ~web.live.view[v].tick
    /\ LiveStep([web.live EXCEPT !.view[v].tick = TRUE])

\* the request context is cancelled (the client went away)
CancelRequest(v) ==
    /\ web.live.view[v].pc = "select"
    /\ ~web.live.view[v].cancelled
    /\ LiveStep([web.live EXCEPT !.view[v].cancelled = TRUE])

\* lines 78-81: the cases of the select that are ready; the select takes
\* any one of them
SelectCasesMutant(cancelled, tick) ==
    IF cancelled \/ tick THEN {"done", "tick"} ELSE {}
SelectCases(cancelled, tick) ==
    (IF cancelled THEN {"done"} ELSE {}) \cup (IF tick THEN {"tick"} ELSE {})

Ready(v) == SelectCases(web.live.view[v].cancelled, web.live.view[v].tick)

\* lines 79-80: case <-r.Context().Done()
ViewerReturn(v) ==
    /\ web.live.view[v].pc = "select"
    /\ "done" \in Ready(v)
    /\ LiveStep([web.live EXCEPT !.view[v].pc = "returned",
                                 !.view[v].why = "cancelled"])

\* lines 83-90: no frame, the misses are counted
TimedOut(noFrameCount) == noFrameCount > MJPEGNoFrameTimeout

ViewerMiss(v) ==
    /\ web.live.view[v].pc = "select"
    /\ "tick" \in Ready(v)
    /\ web.live.obj[web.live.view[v].mgr].frame = 0
    /\ LET n == web.live.view[v].noFrameCount + 1
       IN LiveStep([web.live EXCEPT !.view[v].tick = FALSE,
                                    !.view[v].noFrameCount = n,
                                    !.view[v].misses = @ + 1,
                                    !.view[v].pc = IF TimedOut(n) THEN "returned" ELSE "select",
                                    !.view[v].why = IF TimedOut(n) THEN "timeout" ELSE @])

\* line 91: noFrameCount = 0
NoFrameResetMutant(noFrameCount) == noFrameCount
NoFrameReset(noFrameCount) == 0

\* lines 91-120: a frame is there; it is written to the response
ViewerFrame(v) ==
    /\ web.live.view[v].pc = "select"
    /\ "tick" \in Ready(v)
    /\ web.live.obj[web.live.view[v].mgr].frame # 0
    /\ LiveStep([web.live EXCEPT !.view[v].tick = FALSE,
                                 !.view[v].noFrameCount = NoFrameReset(@),
                                 !.view[v].misses = 0,
                                 !.view[v].last = web.live.obj[web.live.view[v].mgr].frame])

\* lines 94-113: a write to the response fails
ViewerWriteError(v) ==
    /\ web.live.view[v].pc = "select"
    /\ "tick" \in Ready(v)
    /\ web.live.obj[web.live.view[v].mgr].frame # 0
    /\ LiveStep([web.live EXCEPT !.view[v].tick = FALSE,
                                 !.view[v].noFrameCount = NoFrameReset(@),
                                 !.view[v].misses = 0,
                                 !.view[v].pc = "returned",
                                 !.view[v].why = "write"])

InitCameraSide ==
    /\ cm = NewCameraManager(DefaultConfigs)
    /\ cams = InitCam
    /\ stream = InitStream
    /\ extr = InitExtr
    /\ web = InitWeb

\* ------------------------------------------------------------------------
\* Specifications
\* ------------------------------------------------------------------------
InitExport ==
    /\ up = TRUE
    /\ exportInfo = Info(FALSE, FALSE, "")
    /\ exportFile = NoFile
    /\ sidecar = NoSidecar
    /\ temp = [t \in 0..MaxExportTime |-> NoDir]
    /\ job = [j \in Jobs |-> IdleJob]
    /\ ff = [j \in Jobs |-> NoCmd]
    /\ hist = [requests |-> 0, faults |-> 0, crashes |-> 0, crashedInProgress |-> FALSE]

\* the archive the capture loops left before the exports of the behaviour:
\* one segment of SizeQuantum bytes per second, cameras alternating
ArchivePool ==
    {[dir |-> CameraDirName(IF t % 2 = 0 THEN "front" ELSE "rear"),
      name |-> SegmentName(IF t % 2 = 0 THEN "front" ELSE "rear", t),
      ext |-> ".mjpeg", modTime |-> t, size |-> SizeQuantum] : t \in 0..(MaxExportTime - 1)}

InitStorage ==
    /\ now = 0
    /\ archive = {}
    /\ recording = [c \in Cameras |-> None]
    /\ sm = InitSM
    /\ run = InitRun
    /\ InitExport
    /\ InitCameraSide

NextStorage ==
    \/ \E cam \in Cameras : StartSegment(cam)
    \/ \E cam \in Cameras : WriteFrames(cam)
    \/ \E cam \in Cameras : EndSegment(cam)
    \/ Tick
    \/ EnforceScan
    \/ EnforceDelete
    \/ EnforceReturn

SpecStorage == InitStorage /\ [][NextStorage]_vars

Init ==
    /\ now = MaxExportTime - 1
    /\ archive = ArchivePool
    /\ recording = [c \in Cameras |-> None]
    /\ sm = InitSM
    /\ run = InitRun
    /\ InitExport
    /\ InitCameraSide

\* the steps of generateExportAsync in which no I/O operation fails
JobStep(j) ==
    \/ JobCleanup(j)
    \/ JobInit(j)
    \/ JobScan(j)
    \/ JobSort(j)
    \/ JobMkdir(j)
    \/ JobCopy(j)
    \/ JobCopied(j)
    \/ JobManifest(j)
    \/ JobRemoveOld(j)
    \/ JobStart(j)
    \/ JobProgress(j)
    \/ JobEncodingFailed(j)
    \/ JobVerify(j)
    \/ JobSave(j)
    \/ JobPublish(j)

\* the steps in which an I/O operation fails
JobFault(j) ==
    \/ JobScanError(j)
    \/ JobMkdirError(j)
    \/ JobCopyError(j)
    \/ JobManifestError(j)
    \/ JobExportDirError(j)
    \/ JobStartError(j)

Ffmpeg(j) ==
    \/ FfmpegOpen(j)
    \/ FfmpegWrite(j)
    \/ FfmpegExit(j)
    \/ FfmpegFail(j)

\* a client that requests an export only while no export job is running
RequestWhenIdle(startTime, endTime) ==
    /\ ActiveJobs = {}
    /\ handleGenerateExport(startTime, endTime)

\* exports one after the other, with I/O failures, eviction runs, delete
\* requests and a crash
Next ==
    \/ \E s, e \in 0..MaxExportTime : RequestWhenIdle(s, e)
    \/ \E j \in Jobs : JobStep(j)
    \/ \E j \in Jobs : JobFault(j)
    \/ \E j \in Jobs : JobPanic(j)
    \/ \E j \in Jobs : Ffmpeg(j)
    \/ handleDeleteExport
    \/ Crash
    \/ Startup
    \/ TickExport
    \/ EnforceScan
    \/ EnforceDelete
    \/ EnforceReturn

Spec == Init /\ [][Next]_vars

\* export requests that overlap: the requests cover the whole archive
NextOverlap ==
    \/ handleGenerateExport(0, MaxExportTime)
    \/ \E j \in Jobs : JobStep(j)
    \/ \E j \in Jobs : Ffmpeg(j)
    \/ handleDeleteExport
    \/ TickExport

SpecOverlap == Init /\ [][NextOverlap]_vars

\* the camera manager with restarts and concurrent readers
InitRestart ==
    /\ now = 0
    /\ archive = {}
    /\ recording = [c \in Cameras |-> None]
    /\ sm = InitSM
    /\ run = InitRun
    /\ InitExport
    /\ \E configs \in {l \in ConfigLists : Enabled(l) # {}} :
          cm = NewCameraManager(configs)
    /\ cams = InitCam
    /\ stream = InitStream
    /\ extr = InitExtr
    /\ web = InitWeb

NextRestart ==
    \/ \E configs \in ConfigLists : RestartWithConfigs(configs)
    \/ RestartStopOld
    \/ RestartClear
    \/ InitializeCamera
    \/ InitializeStreamManager
    \/ InitializeReturn
    \/ RestartStartAll
    \/ ListCameras
    \/ \E id \in Cameras : GetCamera(id)
    \/ \E id \in Cameras : GetStreamManager(id)
    \/ GetDefaultCameraID

SpecRestart == InitRestart /\ [][NextRestart]_vars

\* the capture loops of the cameras and their Stop
InitCamera ==
    /\ now = 0
    /\ archive = {}
    /\ recording = [c \in Cameras |-> None]
    /\ sm = InitSM
    /\ run = InitRun
    /\ InitExport
    /\ InitCameraSide

NextCamera ==
    \E c \in Cameras :
        \/ CameraStart(c)
        \/ CameraMkdir(c)
        \/ CameraMkdirError(c)
        \/ CameraCheckDone(c)
        \/ CameraCommand(c)
        \/ CameraPipeError(c)
        \/ CameraProcStart(c)
        \/ CameraProcStartError(c)
        \/ EncoderExit(c)
        \/ CameraWaitReturns(c)
        \/ CameraAfterSegment(c)
        \/ CameraStop(c)
        \/ CameraStopKill(c)

SpecCamera == InitCamera /\ [][NextCamera]_vars

\* one frame cache with concurrent UpdateFrame and GetLatestFrame calls
NextStream ==
    \/ \E w \in Writers, frameData \in Frames : UpdateFrameCall(w, frameData)
    \/ \E w \in Writers : UpdateFrameLock(w)
    \/ \E w \in Writers : UpdateFrameStore(w)
    \/ \E w \in Writers : UpdateFrameUnlock(w)
    \/ \E w \in Writers : CallerChangesBuffer(w)
    \/ \E r \in Readers : GetLatestFrameLock(r)
    \/ \E r \in Readers : GetLatestFrameCopy(r)
    \/ \E r \in Readers : GetLatestFrameUnlock(r)
    \/ \E r \in Readers : ReaderChangesBuffer(r)
    \/ \E r \in Readers : ReaderDone(r)

SpecStream == InitCamera /\ [][NextStream]_vars

\* one caller of UpdateFrame, one of GetLatestFrame, and Stop at any moment
NextCache ==
    \/ \E frameData \in Frames : UpdateFrameCall(1, frameData)
    \/ UpdateFrameLock(1)
    \/ UpdateFrameStore(1)
    \/ UpdateFrameUnlock(1)
    \/ GetLatestFrameLock(1)
    \/ GetLatestFrameCopy(1)
    \/ GetLatestFrameUnlock(1)
    \/ ReaderDone(1)
    \/ StreamManagerStop

SpecCache == InitCamera /\ [][NextCache]_vars

\* a capture file that grows byte by byte and is read at any length
NextExtract ==
    \/ \E b \in FileBytes : EncoderWrite(b)
    \/ ExtractFrame

SpecExtract == InitCamera /\ [][NextExtract]_vars

\* single-frame requests while the cameras record, the enforcer evicts and
\* the cameras are restarted
\* the archive is over the cap; the segment the front camera has just
\* started is still empty
FrameArchive ==
    {[dir |-> CameraDirName("rear"), name |-> SegmentName("rear", 0), ext |-> ".mjpeg",
      modTime |-> 0, size |-> 2 * SizeQuantum],
     [dir |-> CameraDirName("front"), name |-> SegmentName("front", 0), ext |-> ".mjpeg",
      modTime |-> 0, size |-> SizeQuantum],
     [dir |-> CameraDirName("front"), name |-> SegmentName("front", 1), ext |-> ".mjpeg",
      modTime |-> 1, size |-> 0]}

InitFrame ==
    /\ now = 1
    /\ archive = FrameArchive
    /\ recording = [c \in Cameras |-> IF c = "front" THEN SegmentName("front", 1) ELSE None]
    /\ sm = InitSM
    /\ run = InitRun
    /\ InitExport
    /\ InitCameraSide

NextFrame ==
    \/ EnforceScan
    \/ EnforceDelete
    \/ EnforceReturn
    \/ RestartWithConfigs(DefaultConfigs)
    \/ RestartStopOld
    \/ RestartClear
    \/ InitializeCamera
    \/ InitializeStreamManager
    \/ InitializeReturn
    \/ RestartStartAll
    \/ \E c \in Cameras : RefreshList(c)
    \/ \E c \in Cameras : RefreshExtract(c)
    \/ \E camera \in Cameras \cup {""} : handleStreamFrame(camera)
    \/ FrameResolve
    \/ FrameLookup
    \/ FrameGet
    \/ FrameDone

SpecFrame == InitFrame /\ [][NextFrame]_vars

\* an export over an archive in which two segments have the same
\* modification time and one segment is still being written; the enforcer
\* evicts while the job runs
ManifestArchive ==
    {[dir |-> CameraDirName(c), name |-> SegmentName(c, 0), ext |-> ".mjpeg",
      modTime |-> 0, size |-> SizeQuantum] : c \in Cameras}
    \cup {[dir |-> CameraDirName("front"), name |-> SegmentName("front", 1), ext |-> ".mjpeg",
           modTime |-> 1, size |-> SizeQuantum]}

InitManifest ==
    /\ now = 1
    /\ archive = ManifestArchive
    /\ recording = [c \in Cameras |-> IF c = "front" THEN SegmentName("front", 1) ELSE None]
    /\ sm = InitSM
    /\ run = InitRun
    /\ InitExport
    /\ InitCameraSide

NextManifest ==
    \/ RequestWhenIdle(0, MaxExportTime)
    \/ \E j \in Jobs : JobStep(j)
    \/ \E j \in Jobs : JobPanic(j)
    \/ \E j \in Jobs : Ffmpeg(j)
    \/ WriteFrames("front")
    \/ TickExport
    \/ EnforceScan
    \/ EnforceDelete
    \/ EnforceReturn

SpecManifest == InitManifest /\ [][NextManifest]_vars

\* eviction runs with I/O errors and status requests over a fixed archive
EvictArchive ==
    {[dir |-> CameraDirName("front"), name |-> SegmentName("front", 0), ext |-> ".mjpeg",
      modTime |-> 0, size |-> 2 * SizeQuantum],
     [dir |-> CameraDirName("rear"), name |-> SegmentName("rear", 1), ext |-> ".mjpeg",
      modTime |-> 1, size |-> 2 * SizeQuantum],
     [dir |-> CameraDirName("front"), name |-> SegmentName("front", 2), ext |-> ".mjpeg",
      modTime |-> 2, size |-> SizeQuantum]}

InitEvict ==
    /\ now = 2
    /\ archive = EvictArchive
    /\ recording = [c \in Cameras |-> None]
    /\ sm = InitSM
    /\ run = InitRun
    /\ InitExport
    /\ InitCameraSide

TickStats ==
    /\ now < MaxStatsTime
    /\ now' = now + 1
    /\ UNCHANGED <<archive, recording, sm, run>>
    /\ UNCHANGED exportVars
    /\ UNCHANGED cameraVars

NextEvict ==
    \/ EnforceScan
    \/ EnforceScanDirError
    \/ EnforceDelete
    \/ EnforceDeleteError
    \/ EnforceReturn
    \/ GetStorageStats
    \/ StatsWalk
    \/ StatsStore
    \/ StatsDone
    \/ TickStats

SpecEvict == InitEvict /\ [][NextEvict]_vars

\* eviction runs and status requests while exports are generated
NextStats ==
    \/ RequestWhenIdle(0, MaxExportTime)
    \/ \E j \in Jobs : JobStep(j)
    \/ \E j \in Jobs : JobPanic(j)
    \/ \E j \in Jobs : Ffmpeg(j)
    \/ EnforceScan
    \/ EnforceDelete
    \/ EnforceReturn
    \/ GetStorageStats
    \/ StatsWalk
    \/ StatsStore
    \/ StatsDone

SpecStats == Init /\ [][NextStats]_vars

\* viewers of the continuous stream of a camera that is started once
NextViewer ==
    \/ startAllCameras(0)
    \/ startCamera(0)
    \/ Produce
    \/ \E o \in Objs, k \in TaskSlots : TaskExtract(o, k)
    \/ \E o \in Objs, k \in TaskSlots : TaskStore(o, k)
    \/ \E v \in Viewers : handleStreamMJPEG(v)
    \/ \E v \in Viewers : TickerFire(v)
    \/ \E v \in Viewers : CancelRequest(v)
    \/ \E v \in Viewers : ViewerReturn(v)
    \/ \E v \in Viewers : ViewerMiss(v)
    \/ \E v \in Viewers : ViewerFrame(v)
    \/ \E v \in Viewers : ViewerWriteError(v)

SpecViewer == InitCamera /\ [][NextViewer]_vars

\* the start of the cameras and restarts from concurrent requests, with the
\* frame-refresh goroutines and one viewer
NextWriters ==
    \/ \E r \in Threads : ThreadRestart(r)
    \/ \E r \in Threads : ThreadStopOld(r)
    \/ \E r \in Threads : ThreadClear(r)
    \/ \E r \in Threads : ThreadInitialize(r)
    \/ \E r \in Threads : startAllCameras(r)
    \/ \E r \in Threads : startCamera(r)
    \/ Produce
    \/ \E o \in Objs, k \in TaskSlots : TaskReturn(o, k)
    \/ \E o \in Objs, k \in TaskSlots : TaskExtract(o, k)
    \/ \E o \in Objs, k \in TaskSlots : TaskStore(o, k)
    \/ handleStreamMJPEG(1)
    \/ TickerFire(1)
    \/ ViewerFrame(1)

SpecWriters == InitCamera /\ [][NextWriters]_vars

\* export jobs and one delete request after which no export is requested;
\* the history records that the delete request has returned
InitDelete ==
    /\ now = MaxExportTime - 1
    /\ archive = ArchivePool
    /\ recording = [c \in Cameras |-> None]
    /\ sm = InitSM
    /\ run = InitRun
    /\ up = TRUE
    /\ exportInfo = Info(FALSE, FALSE, "")
    /\ exportFile = NoFile
    /\ sidecar = NoSidecar
    /\ temp = [t \in 0..MaxExportTime |-> NoDir]
    /\ job = [j \in Jobs |-> IdleJob]
    /\ ff = [j \in Jobs |-> NoCmd]
    /\ hist = [requests |-> 0, faults |-> 0, crashes |-> 0, crashedInProgress |-> FALSE,
               deleted |-> FALSE]
    /\ InitCameraSide

RequestBeforeDelete ==
    /\ ~hist.deleted
    /\ handleGenerateExport(0, MaxExportTime)

LastDeleteExport ==
    /\ ~hist.deleted
    /\ handleDeleteExportOf([hist EXCEPT !.deleted = TRUE])

NextDelete ==
    \/ RequestBeforeDelete
    \/ \E j \in Jobs : JobStep(j)
    \/ \E j \in Jobs : Ffmpeg(j)
    \/ LastDeleteExport
    \/ TickExport

SpecDelete == InitDelete /\ [][NextDelete]_vars

\* ------------------------------------------------------------------------
\* Properties of the quota enforcer
\* ------------------------------------------------------------------------
\* summed size of the archive files in the non-hidden camera directories
ArchiveTotal == SumSizes({f \in archive : f.dir[1] # "." /\ f.ext = ".mjpeg"})

\* a run has returned and nothing wrote the archive since its scan
CleanRunDone == sm.pc = "idle" /\ run.done /\ run.clean

\* C1: after a run of enforceStorageCap that no write to the archive
\* interleaved with, the archive total is at most the configured cap
\* (every archive file can be deleted, so the cap can always be reached)
C1_UnderCapAfterRun == CleanRunDone => ArchiveTotal <= storageCapGB * BytesPerGB

C1_Witness ==
    /\ CleanRunDone
    /\ sm.deletedCount >= 2
    /\ archive # {}
    /\ ArchiveTotal <= storageCapGB * BytesPerGB

\* a step of the delete loop that removed a file
DeletesFile == sm.pc = "delete" /\ sm'.deletedCount = sm.deletedCount + 1

C3_SecondRunDeletesNothing ==
    (sm.pc = "idle" /\ run.done /\ run.quiet = 2) => sm.deletedCount = 0

C3_Witness ==
    /\ sm.pc = "idle" /\ run.done /\ run.quiet = 2
    /\ run.prevDeleted
    /\ sm.deletedCount = 0
    /\ archive # {}

\* ------------------------------------------------------------------------
\* Properties of the export pipeline
\* ------------------------------------------------------------------------
\* job j returns in this step (the process keeps running)
Returns(j) == job[j].pc # "idle" /\ job'[j].pc = "idle" /\ up'

\* C4: a job that has created its workspace still finds it there, no two
\* jobs use the same workspace, and at most one transcoder has its output
\* in the export slot
C4_SingleExport ==
    /\ \A j \in Jobs : job[j].tempDir # NoTemp => temp[job[j].tempDir].exists
    /\ \A j, k \in Jobs :
          (j # k /\ job[j].tempDir # NoTemp) => job[j].tempDir # job[k].tempDir
    /\ Cardinality({j \in Jobs : ff[j].state = "writing" /\ ff[j].attached}) <= 1

\* C5: the start after a crash that interrupted an export leaves ExportInfo
\* not available and not in progress, and no output file, sidecar or
\* workspace on disk
C5_CrashRecovery ==
    [][(~up /\ up' /\ hist.crashedInProgress) =>
          /\ ~exportInfo'.available /\ ~exportInfo'.inProgress
          /\ ~exportFile'.exists /\ ~sidecar'.exists
          /\ \A t \in DOMAIN temp : ~temp'[t].exists]_vars

\* C6: when an export job returns, ExportInfo is not in progress and is
\* either available or carries a message
C6_TerminalState ==
    [][\A j \in Jobs : Returns(j) =>
          /\ ~exportInfo'.inProgress
          /\ exportInfo'.available \/ exportInfo'.progress # ""]_vars

\* C7: when an export job returns without success, the export slot holds no
\* output file of that attempt and no sidecar marked in progress
C7_NoPartialOutput ==
    [][\A j \in Jobs : (Returns(j) /\ job'[j].outcome # "ok") =>
          /\ ~(exportFile'.exists /\ exportFile'.by = job[j].aid)
          /\ ~(sidecar'.exists /\ sidecar'.info.inProgress)]_vars

\* C8: whenever ExportInfo is available the export output file exists and is
\* not empty
C8_AvailableNonEmpty ==
    exportInfo.available => (exportFile.exists /\ exportFile.size > 0)

C10_ExactRange ==
    [][\A j \in Jobs :
          LET inRange == {Path(f) : f \in {g \in archive :
                             job[j].startTime <= g.modTime /\ g.modTime <= job[j].endTime}}
          IN /\ (job[j].pc = "scan" /\ job'[j].pc = "sort") => job'[j].found = inRange
             /\ (job[j].pc = "scan" /\ job'[j].pc = "idle" /\ job'[j].outcome = "failed"
                  /\ exportInfo'.progress = "No videos found in the specified date range")
                    => inRange = {}]_vars

\* files at seconds 0, 1 and 2 and the range [1, 3]: the files of seconds 1
\* and 2 are selected, the file of second 0 is not
C10_Witness ==
    \E j \in Jobs :
        /\ job[j].pc = "sort"
        /\ job[j].startTime = 1 /\ job[j].endTime = 3
        /\ {f.modTime : f \in archive} = {0, 1, 2}
        /\ job[j].found = {Path(f) : f \in {g \in archive : g.modTime \in {1, 2}}}

\* C11: the sidecar written for a finished export, and the final ExportInfo,
\* carry processed_files and total_segments equal to the number of files
\* that were copied into the workspace
C11_SidecarCounts ==
    [][\A j \in Jobs :
          /\ (job[j].pc = "save" /\ job'[j].pc = "publish") =>
                /\ sidecar'.info.processedFiles = Len(job[j].tempFiles)
                /\ sidecar'.info.totalSegments = Len(job[j].tempFiles)
          /\ (job[j].pc = "publish" /\ Returns(j)) =>
                /\ exportInfo'.processedFiles = Len(job[j].tempFiles)
                /\ exportInfo'.totalSegments = Len(job[j].tempFiles)]_vars

\* the copy stage of job j is over and its transcoder has not been reaped
AfterCopy(j) == job[j].pc \in {"manifest", "rmold", "start", "wait"}

\* C12: once the copy stage of an export is over, every manifest entry is a
\* path inside the workspace of that export, and no step of the quota
\* enforcer changes that workspace
C12_EvictionSparesWorkspace ==
    [][\A j \in Jobs : AfterCopy(j) =>
          /\ \A n \in 1..Len(job[j].tempFiles) : job[j].tempFiles[n][1] = job[j].tempDir
          /\ \A n \in 1..Len(temp[job[j].tempDir].concat) :
                temp[job[j].tempDir].concat[n][1] = job[j].tempDir
          /\ (sm' # sm /\ up') => temp'[job[j].tempDir] = temp[job[j].tempDir]]_vars

\* the transcoder of a job is writing from its workspace while the source of
\* one of the copied segments has been evicted from the archive
C12_Witness ==
    \E j \in Jobs :
        /\ job[j].pc = "wait" /\ ff[j].state = "writing" /\ InputsThere(j)
        /\ sm.deletedCount > 0
        /\ \E s \in temp[job[j].tempDir].segs : StillThere({s.src}) = {}

\* C13: with no I/O failure, an export that has matched files returns from
\* its sort or copy stage only at the end of the copy loop, with no file
\* copied and the message that none could be copied: a matched file that was
\* evicted meanwhile is skipped and the export goes on
C13_EvictedFileSkipped ==
    [][\A j \in Jobs :
          (Returns(j) /\ job[j].pc \in {"sort", "copy"} /\ hist' = hist) =>
             /\ job[j].pc = "copy"
             /\ job[j].i = Len(job[j].mjpegFiles)
             /\ job[j].tempFiles = <<>>
             /\ exportInfo'.progress =
                  "Error: No videos could be copied (files may have been deleted)"]_vars

C15_StartupAdoption ==
    [][(~up /\ up') =>
          /\ exportInfo'.available <=>
                (exportFile.exists /\ sidecar.exists /\ ~sidecar.info.inProgress)
          /\ (~sidecar.exists \/ sidecar.info.inProgress) =>
                /\ ~exportInfo'.available /\ ~exportInfo'.inProgress
                /\ ~exportFile'.exists /\ ~sidecar'.exists]_vars

\* C16: a read made while RestartWithConfigs runs (with a configuration that
\* enables a camera) sees the camera set of before the restart or the
\* complete new set
C16_AtomicRestart ==
    (cm.read.during /\ cm.after # {}) =>
       /\ cm.read.op = "ListCameras" => cm.read.set \in {cm.before, cm.after}
       /\ cm.read.op \in {"GetCamera", "GetStreamManager"} =>
             cm.read.found \in {cm.read.id \in cm.before, cm.read.id \in cm.after}
       /\ cm.read.op = "GetDefaultCameraID" => cm.read.id \in (cm.before \cup cm.after)

\* C17: once Stop of a camera has returned, no encoder process of that
\* camera is running
C17_StopKillsEncoder ==
    \A c \in Cameras : cams[c].stop = "returned" => cams[c].proc # "running"

\* C18 as stated: Camera.Start returns only when the stop signal was given
C18_ReturnsOnlyOnStop ==
    [][\A c \in Cameras :
          (cams[c].pc # "returned" /\ cams'[c].pc = "returned") => cams[c].done]_vars

\* C18 amended: once the capture loop is entered, Camera.Start returns only
\* when the stop signal was given, and while it was not given the loop goes
\* from the end of every segment, failed or not, to the start of the next;
\* before the loop, Start returns if the camera directory cannot be created
C18_LoopNeverGivesUp ==
    [][\A c \in Cameras :
          /\ (cams[c].pc # "returned" /\ cams'[c].pc = "returned") =>
                (cams[c].done \/ cams[c].pc = "mkdir")
          /\ (cams[c].pc = "after" /\ ~cams[c].done /\ cams'[c].pc # "after") =>
                cams'[c].pc = "check"
          /\ (cams[c].pc = "check" /\ ~cams[c].done /\ cams'[c].pc # "check") =>
                cams'[c].pc = "cmd"]_vars

\* a segment of the camera failed and, with no stop signal, the encoder of a
\* later segment is running
C18_Witness ==
    \E c \in Cameras :
        /\ cams[c].failed /\ ~cams[c].done
        /\ cams[c].pc = "wait" /\ cams[c].proc = "running"

\* C19: GetLatestFrame returns none exactly if no non-empty frame was ever
\* stored, else the bytes of the most recent completed update; the cached
\* bytes change only when an UpdateFrame call stores a frame, not when a
\* caller changes its input buffer or a buffer it was given
C19_FrameCache ==
    [][/\ \A r \in Readers :
             (stream.readers[r].pc = "copy" /\ stream'.readers[r].pc = "unlock") =>
                /\ stream'.readers[r].none <=> (stream.completed = <<>>)
                /\ stream'.readers[r].data = stream.completed
       /\ (Content(stream.latestFrame)' # Content(stream.latestFrame)) =>
             \E w \in Writers : /\ stream.writers[w].pc = "store"
                                /\ stream'.writers[w].pc = "unlock"
                                /\ Content(stream.latestFrame)' = stream.writers[w].buf]_vars

\* a reader was given the cached frame, then it and the caller that stored
\* the frame both changed their buffers; a second reader gets the frame as
\* it was stored
C19_Witness ==
    /\ stream.completed # <<>>
    /\ Content(stream.latestFrame) = stream.completed
    /\ \E w \in Writers : /\ stream.writers[w].pc = "idle" /\ stream.writers[w].mutated
                          /\ Len(stream.writers[w].buf) = Len(stream.completed)
                          /\ stream.writers[w].buf # stream.completed
    /\ \E r \in Readers : /\ stream.readers[r].pc = "got" /\ stream.readers[r].mutated
                          /\ stream.readers[r].data # stream.completed
    /\ \E r \in Readers : /\ stream.readers[r].pc = "got" /\ ~stream.readers[r].mutated
                          /\ stream.readers[r].data = stream.completed

\* C20: for a file that ends right after a complete end marker the extraction
\* returns exactly the last complete frame; for a file that ends inside an
\* unfinished frame it returns the last complete frame or none
C20_LastCompleteFrame ==
    extr.result # NotCalled =>
       /\ (extr.cur = <<>> /\ extr.last # <<>>) => extr.result = Frame(extr.last)
       /\ extr.cur # <<>> => extr.result \in {NoFrame, Frame(extr.last)}

\* C21: a single-frame request for a configured camera whose cache was never
\* populated is answered with 503; the extraction yields no frame when the
\* directory has no capture file, when the file is empty and when it has
\* vanished
NeverPopulated(c) == \A g \in Gens : web.cache[c][g] = <<>>

C21_NotYetAvailable ==
    /\ (web.req.pc = "done" /\ web.req.configured /\ NeverPopulated(web.req.id))
          => web.req.status = 503
    /\ \A c \in Cameras :
          (web.refresh[c].pc = "open" /\ CaseOf(web.refresh[c].file) \in {"vanished", "empty"})
             => ExtractFrom(web.refresh[c].file) = NoFrame

\* the modification time the sort has read for the source of the n-th line
\* of the manifest of job j
ManifestTime(j, n) == job[j].sorted[temp[job[j].tempDir].concat[n][2] + 1]

HasManifest(j) ==
    /\ job[j].pc \in {"rmold", "start", "wait", "save", "publish"}
    /\ temp[job[j].tempDir].exists
    /\ temp[job[j].tempDir].concat # <<>>

\* C22 as stated: the manifest lists the copies in strictly ascending order
\* of the modification times of their source files
C22_StrictlyAscending ==
    \A j \in Jobs : HasManifest(j) =>
       \A m, n \in 1..Len(temp[job[j].tempDir].concat) :
          m < n => ManifestTime(j, m) < ManifestTime(j, n)

\* C22, amended: the manifest lists the copies in the order of the sorted
\* source list, so that no line comes before a line whose source had an older
\* modification time when the sort read it; a skipped source leaves the order
\* of the others as it is
C22_ManifestOrder ==
    \A j \in Jobs : HasManifest(j) =>
       \A m, n \in 1..Len(temp[job[j].tempDir].concat) :
          m < n => /\ temp[job[j].tempDir].concat[m][2] < temp[job[j].tempDir].concat[n][2]
                   /\ ManifestTime(j, m) <= ManifestTime(j, n)

\* a manifest of two lines written after a source between or before them was
\* skipped
C22_Witness ==
    \E j \in Jobs :
       /\ HasManifest(j)
       /\ Len(temp[job[j].tempDir].concat) = 2
       /\ Len(job[j].mjpegFiles) = 3
       /\ ManifestTime(j, 1) < ManifestTime(j, 2)

\* C23: when an export job panics, the deferred guard leaves ExportInfo not
\* in progress and not available with a failure message, and neither the
\* export output, nor the sidecar, nor a workspace of the job is left
C23_PanicGuard ==
    [][\A j \in Jobs :
          (job[j].pc # "idle" /\ job'[j].outcome = "panicked" /\ job'[j].pc = "idle") =>
             /\ ~exportInfo'.inProgress
             /\ ~exportInfo'.available
             /\ exportInfo'.progress = "Error: Export generation failed unexpectedly"
             /\ ~exportFile'.exists
             /\ ~sidecar'.exists
             /\ (job[j].tempDir = NoTemp \/ ~temp'[job[j].tempDir].exists)
             /\ \A t \in DOMAIN temp : ~temp'[t].exists]_vars

\* a job has panicked while the export of an earlier job was on disk
C23_Witness ==
    \E j \in Jobs :
       /\ job[j].outcome = "panicked"
       /\ job[j].killedPrior
       /\ exportInfo.progress = "Error: Export generation failed unexpectedly"
       /\ ~exportFile.exists
       /\ ~sidecar.exists

\* ------------------------------------------------------------------------
\* C24: hidden directories are outside the quota
\* ------------------------------------------------------------------------
\* the video files of the camera directories, as a scan records them
CameraDirFiles ==
    {FileInfo(f) : f \in {g \in archive : \E c \in Cameras : g.dir = CameraDirName(c)}}

\* a step of the enforcer that scans the tree
ScanStep == sm.pc = "idle" /\ sm' # sm /\ web' = web

\* C24: no eviction run counts toward usage, or deletes, a file in a
\* directory directly under the archive root whose name begins with '.'
\* (the export directory with the output file and the sidecar, the export
\* workspaces), and the walk of GetStorageStats leaves them out as well:
\* a scan caches exactly the sum of the camera directories' video files and
\* lists only their paths, a step of the delete loop leaves the export
\* output, the sidecar and the workspaces as they are, and a status walk
\* sums exactly the camera directories' video files.
C24_HiddenOutsideQuota ==
    [][/\ ScanStep =>
            /\ sm'.lastUsed = SumSizes(CameraDirFiles)
            /\ \A n \in 1..Len(sm'.files) : sm'.files[n] \in CameraDirFiles
       /\ sm.pc = "delete" =>
            /\ \A n \in 1..Len(sm.files) : sm.files[n].path[1][1] # "."
            /\ (sm'.pc = "delete" /\ sm'.idx # sm.idx =>
                    /\ temp' = temp
                    /\ exportFile' = exportFile
                    /\ sidecar' = sidecar)
       /\ (web.stats.pc = "walk" /\ web'.stats.pc = "store") =>
            web'.stats.used = SumSizes(CameraDirFiles)]_vars

\* a status walk has summed the archive and the delete loop has removed a
\* file while an export workspace holds copied segments
C24_Witness ==
    /\ WorkspaceFiles # {}
    /\ sm.pc = "delete"
    /\ sm.deletedCount > 0
    /\ web.stats.pc = "store"
    /\ web.stats.used = SumSizes(CameraDirFiles)


\* ------------------------------------------------------------------------
\* C25: the cached usage after an eviction run
\* ------------------------------------------------------------------------
\* a step of the delete loop that removes a file
DeleteStep == sm.pc = "delete" /\ archive' # archive

\* GetStorageStats is entered and answers from the cache
CachedAnswer == web.stats.pc = "idle" /\ web'.stats.pc = "done"

\* the last eviction run has deleted files and has returned, and no
\* directory or removal has failed
AfterEviction == sm.pc = "idle" /\ sm.deletedCount > 0 /\ hist.faults = 0

\* the cache is outside the freshness window
Stale == sm.lastChecked = ZeroTime \/ now - sm.lastChecked >= FreshSeconds

\* C25 (a): a deletion sets the cached usage to the total after it
C25_DeletionUpdatesCache ==
    [][DeleteStep => sm'.lastUsed = sm'.totalSize]_vars

\* C25 (b): a call answered from the cache after an eviction run returns
\* the total after the eviction
C25_AnswerAfterEviction ==
    [][(CachedAnswer /\ AfterEviction) =>
            web'.stats.result = SumSizes(CameraDirFiles)]_vars

\* C25 (c): outside the freshness window the tree is walked again
C25_StaleRewalks ==
    [][(web.stats.pc = "idle" /\ web'.stats.pc # "idle" /\ Stale) =>
            web'.stats.pc = "walk"]_vars

\* C25: whenever an eviction run deletes a file the cached usage is set to
\* the total after the deletion, so a GetStorageStats call answered from
\* the cache inside the freshness window after an eviction run returns the
\* total after the eviction, never the one before it; outside the window
\* GetStorageStats walks the tree again.
C25_CacheFollowsEviction ==
    [][/\ DeleteStep => sm'.lastUsed = sm'.totalSize
       /\ (CachedAnswer /\ AfterEviction) =>
            web'.stats.result = SumSizes(CameraDirFiles)
       /\ (web.stats.pc = "idle" /\ web'.stats.pc # "idle" /\ Stale) =>
            web'.stats.pc = "walk"]_vars


\* ------------------------------------------------------------------------
\* C26: I/O errors inside an eviction run
\* ------------------------------------------------------------------------
\* the video files of the camera directories other than that of camera c
FilesOutside(c) ==
    {FileInfo(f) : f \in {g \in archive : g.dir # CameraDirName(c)}}

\* a scan in which a camera directory cannot be read
ScanWithError == sm.pc = "idle" /\ hist'.faults > hist.faults

\* an iteration of the delete loop whose removal fails
FailedRemoval ==
    /\ sm.pc = "delete"
    /\ sm'.idx = sm.idx + 1
    /\ sm'.deletedCount = sm.deletedCount

\* C26: in an eviction run a camera subdirectory that cannot be read and a
\* file whose removal fails are skipped and the run continues with the
\* remaining directories and files until the total is at or below the cap
\* or the file list is exhausted; such an error never aborts the run. A
\* scan with an unreadable directory records the files of the other
\* directories and goes on to delete if they exceed the cap; an iteration
\* whose removal fails leaves total and list as they are and stays in the
\* loop at the next file; the loop is left only with the total at or below
\* the cap or with every file visited.
C26_ErrorsAreSkipped ==
    [][/\ ScanWithError =>
            \E c \in Cameras :
                /\ sm'.totalSize = SumSizes(FilesOutside(c))
                /\ (sm'.totalSize > capBytes =>
                        /\ sm'.pc = "delete"
                        /\ Range(sm'.files) = FilesOutside(c))
       /\ FailedRemoval =>
            /\ sm'.pc = "delete"
            /\ sm'.totalSize = sm.totalSize
            /\ sm'.files = sm.files
            /\ archive' = archive
       /\ (sm.pc = "delete" /\ sm'.pc = "idle") =>
            (sm.totalSize <= capBytes \/ sm.idx > Len(sm.files))]_vars

\* a removal has failed and the run has deleted a later file
C26_Witness ==
    /\ hist.faults > 0
    /\ sm.pc = "delete"
    /\ sm.deletedCount > 0
    /\ sm.idx - 1 > sm.deletedCount
    /\ sm.files[1] \in CameraDirFiles


\* ------------------------------------------------------------------------
\* C27: finished segments
\* ------------------------------------------------------------------------
\* the segment files whose encoder has exited
FinishedSegments ==
    {f \in archive : \A c \in Cameras :
        recording[c] = None \/ Path(f) # <<CameraDirName(c), recording[c]>>}

\* C27: once the encoder of a segment has exited, the content of the
\* segment file is never changed again by a later iteration of the capture
\* loop or by a restarted camera (every new segment gets a file name that
\* no archive file has); the file can only be removed, and only by the
\* quota enforcer. In every step a finished segment file stays as it is,
\* or it is gone and the step is a removal of the delete loop.
C27_FinishedSegmentsImmutable ==
    [][\A f \in FinishedSegments :
          \/ f \in archive'
          \/ /\ \A g \in archive' : Path(g) # Path(f)
             /\ sm.pc = "delete"
             /\ sm'.idx = sm.idx + 1]_vars


\* ------------------------------------------------------------------------
\* C28: the miss counter of the continuous stream
\* ------------------------------------------------------------------------
\* viewer v handles a tick in this step
HandlesTick(v) ==
    /\ web.live.view[v].pc = "select"
    /\ web.live.view[v].tick
    /\ ~web'.live.view[v].tick

\* what GetLatestFrame returns to viewer v (0: no frame)
LatestFrame(v) == web.live.obj[web.live.view[v].mgr].frame

\* C28: handleStreamMJPEG ends a continuous stream once GetLatestFrame has
\* returned no frame on more than MJPEGNoFrameTimeout (50) consecutive
\* ticks; a tick with a frame resets the miss counter to zero, so misses
\* that are not consecutive never end the stream. On a tick with a frame
\* the counter is zero afterwards and the stream does not time out; on a
\* tick without one the counter goes up by one and the stream ends exactly
\* if the run of consecutive misses has passed 50; no other step times a
\* stream out.
C28_NoFrameTimeout ==
    [][\A v \in Viewers :
          IF HandlesTick(v)
          THEN /\ LatestFrame(v) # 0 =>
                    /\ web'.live.view[v].noFrameCount = 0
                    /\ web'.live.view[v].why # "timeout"
               /\ LatestFrame(v) = 0 =>
                    /\ web'.live.view[v].noFrameCount = web.live.view[v].noFrameCount + 1
                    /\ web'.live.view[v].noFrameCount = web'.live.view[v].misses
                    /\ (web'.live.view[v].pc = "returned") <=>
                            (web'.live.view[v].misses > MJPEGNoFrameTimeout)
                    /\ (web'.live.view[v].why = "timeout") <=>
                            (web'.live.view[v].misses > MJPEGNoFrameTimeout)
          ELSE web'.live.view[v].why = "timeout" => web.live.view[v].why = "timeout"]_vars

\* one stream has timed out after 51 misses in a row while another one,
\* which had misses before, was sent a frame
C28_Witness ==
    \E v, w \in Viewers :
        /\ web.live.view[v].why = "timeout"
        /\ web.live.view[v].misses = MJPEGNoFrameTimeout + 1
        /\ web.live.view[w].pc = "select"
        /\ web.live.view[w].last # 0
        /\ web.live.view[w].noFrameCount = 0


\* ------------------------------------------------------------------------
\* C29: cancellation of one viewer
\* ------------------------------------------------------------------------
\* the stream task of viewer v runs in this step: its select has taken a case
WakesUp(v) ==
    /\ web.live.view[v].pc = "select"
    /\ \/ web'.live.view[v].pc # "select"
       \/ web'.live.view[v].noFrameCount # web.live.view[v].noFrameCount
       \/ web'.live.view[v].last # web.live.view[v].last
       \/ web.live.view[v].tick /\ ~web'.live.view[v].tick

\* the request context of viewer v is cancelled in this step
Cancels(v) == ~web.live.view[v].cancelled /\ web'.live.view[v].cancelled

\* the step leaves the caches, the frame-refresh goroutines, the capture
\* side and every viewer other than v as they are
OthersUntouched(v) ==
    /\ web'.live.obj = web.live.obj
    /\ web'.live.produced = web.live.produced
    /\ web'.live.thr = web.live.thr
    /\ web'.live.map = web.live.map
    /\ \A w \in Viewers \ {v} : web'.live.view[w] = web.live.view[w]
    /\ UNCHANGED <<cm, cams, stream, extr>>
    /\ UNCHANGED storageVars

\* C29 as stated: when a viewer's request context is cancelled, that
\* viewer's stream task returns at its next wake-up, and the cancellation
\* changes neither the Live Frame Cache nor the progress of any other
\* viewer's stream task or of the capture loop.
C29_ReturnsAtNextWakeUp ==
    [][\A v \in Viewers :
          /\ (web.live.view[v].cancelled /\ WakesUp(v)) =>
                /\ web'.live.view[v].pc = "returned"
                /\ OthersUntouched(v)
          /\ Cancels(v) =>
                /\ web'.live.view[v] = [web.live.view[v] EXCEPT !.cancelled = TRUE]
                /\ OthersUntouched(v)]_vars

\* C29, amended: after the cancellation the stream task returns at its next
\* wake-up at which no tick is pending; at a wake-up with a tick pending
\* the select may take the tick, which is then handled like any other
\* tick, and the task returns at a later wake-up. The cancellation and the
\* wake-ups of the cancelled viewer change neither the Live Frame Cache nor
\* any other viewer's stream task nor the capture side.
C29_CancelledViewer ==
    [][\A v \in Viewers :
          /\ (web.live.view[v].cancelled /\ WakesUp(v)) =>
                /\ ~web.live.view[v].tick =>
                        /\ web'.live.view[v].pc = "returned"
                        /\ web'.live.view[v].why = "cancelled"
                /\ web'.live.view[v].pc # "returned" => HandlesTick(v)
                /\ web'.live.view[v].why = "cancelled" =>
                        web'.live.view[v] = [web.live.view[v] EXCEPT !.pc = "returned",
                                                                     !.why = "cancelled"]
                /\ OthersUntouched(v)
          /\ Cancels(v) =>
                /\ web'.live.view[v] = [web.live.view[v] EXCEPT !.cancelled = TRUE]
                /\ OthersUntouched(v)]_vars

\* a cancelled viewer has returned on the cancellation while the other
\* viewer is still being served frames
C29_Witness ==
    \E v, w \in Viewers :
        /\ web.live.view[v].why = "cancelled"
        /\ web.live.view[v].last # 0
        /\ web.live.view[w].pc = "select"
        /\ ~web.live.view[w].cancelled
        /\ web.live.view[w].last = MaxFrames


\* ------------------------------------------------------------------------
\* C30: one writer per Live Frame Cache
\* ------------------------------------------------------------------------
\* the frame-refresh goroutines of camera object o that are running
WriterTasks(o) == {k \in TaskSlots : web.live.obj[o].task[k].pc \in {"tick", "store"}}

\* C30 (a): at any time each Live Frame Cache has at most one writer task
C30_AtMostOneWriter ==
    \A o \in Objs : Cardinality(WriterTasks(o)) <= 1

\* C30 (b): the frames one viewer is sent follow the order in which the
\* camera's frames were stored
C30_FramesInOrder ==
    [][\A v \in Viewers :
          (HandlesTick(v) /\ LatestFrame(v) # 0) =>
                LatestFrame(v) >= web.live.view[v].last]_vars

\* C30: at any time each Live Frame Cache has at most one writer task, the
\* frame-refresh task of the camera that owns it, also across
\* RestartWithConfigs and repeated segments, and that task extracts frames
\* only from its own camera's directory; hence successive GetLatestFrame
\* results of one viewer follow the order in which that camera's frames
\* were stored.
C30_SingleWriterInOrder ==
    [][/\ \A o \in Objs : Cardinality(WriterTasks(o)) <= 1
       /\ \A v \in Viewers :
            (HandlesTick(v) /\ LatestFrame(v) # 0) =>
                LatestFrame(v) >= web.live.view[v].last]_vars


\* ------------------------------------------------------------------------
\* C35: the default camera
\* ------------------------------------------------------------------------
\* C35: while the camera set is unchanged, repeated GetDefaultCameraID
\* calls return the same camera id (the first camera), also when two or
\* more cameras are configured, so successive stream requests without a
\* camera parameter are served from the same camera. A call that follows
\* another call, with no restart running and the map unchanged, returns
\* the id the call before it returned.
C35_DefaultCameraStable ==
    [][(/\ cm.read.op = "GetDefaultCameraID"
        /\ cm'.read.op = "GetDefaultCameraID"
        /\ cm.pc = "idle"
        /\ cm'.pc = "idle"
        /\ cm'.cameras = cm.cameras) =>
            cm'.read.id = cm.read.id]_vars


\* ------------------------------------------------------------------------
\* C37: a restart that fails
\* ------------------------------------------------------------------------
\* C37: if RestartWithConfigs returns an error (the new configuration list
\* has no enabled camera), the camera set and the caches that were running
\* before the call are unchanged: they are still returned by ListCameras
\* and GetStreamManager. After a call that has returned an error both maps
\* hold the cameras they held when the call began.
C37_FailedRestartKeepsCameras ==
    (cm.pc = "idle" /\ cm.result = "error") =>
        /\ cm.cameras = cm.before
        /\ cm.streamManagers = cm.before


\* ------------------------------------------------------------------------
\* C40: the flags of ExportInfo
\* ------------------------------------------------------------------------
\* C40: in every reachable state, under any interleaving of export jobs,
\* delete requests and status queries, the current ExportInfo record is
\* there and never has available = true and in_progress = true at the
\* same time.
C40_NotAvailableWhileInProgress ==
    /\ {"available", "inProgress", "progress"} \subseteq DOMAIN exportInfo
    /\ exportInfo.available \in BOOLEAN
    /\ exportInfo.inProgress \in BOOLEAN
    /\ ~(exportInfo.available /\ exportInfo.inProgress)

\* a finished export is on offer while another job is still working
C40_Witness ==
    /\ exportInfo.available
    /\ \E j \in Jobs : job[j].pc \notin {"idle", "cleanup"}


\* ------------------------------------------------------------------------
\* C38: after a delete request
\* ------------------------------------------------------------------------
\* C38: after a delete-export request has returned, as long as no new
\* export is requested afterwards, ExportInfo.available stays false and the
\* export output file and the sidecar stay absent; this also holds when
\* the delete is issued while an export job is still in progress.
C38_DeletedStaysDeleted ==
    hist.deleted =>
        /\ ~exportInfo.available
        /\ ~exportFile.exists
        /\ ~sidecar.exists

\* ------------------------------------------------------------------------
\* C39: once the cache holds a non-empty frame it never holds an empty one
\* again, so GetLatestFrame never answers none again, whether the callers of
\* UpdateFrame go on or not and whether Stop was called or not; an
\* UpdateFrame with an empty frame leaves the cached frame as it is
\* ------------------------------------------------------------------------
CacheHasFrame == Len(Content(stream.latestFrame)) > 0

StoresEmpty(w) ==
    /\ stream.writers[w].pc = "store"
    /\ stream'.writers[w].pc = "unlock"
    /\ Len(stream.writers[w].buf) = 0

AnswersFrom(r) ==
    /\ stream.readers[r].pc = "copy"
    /\ stream'.readers[r].pc = "unlock"

C39_FrameStaysAvailable ==
    [][/\ CacheHasFrame => CacheHasFrame'
       /\ \A w \in Writers : StoresEmpty(w) => stream'.latestFrame = stream.latestFrame
       /\ \A r \in Readers : (CacheHasFrame /\ AnswersFrom(r)) =>
              /\ ~stream'.readers[r].none
              /\ Len(stream'.readers[r].data) > 0]_vars

\* after Stop, and after an update with an empty frame that followed one with
\* a frame, a caller of GetLatestFrame holds a frame
C39_Witness ==
    /\ stream.done
    /\ CacheHasFrame
    /\ stream.writers[1].pc = "unlock"
    /\ Len(stream.writers[1].buf) = 0
    /\ stream.readers[1].pc = "got"
    /\ ~stream.readers[1].none

\* ------------------------------------------------------------------------
\* The entries directly under the archive root and the sweep of the
\* temporary export directories
\* ------------------------------------------------------------------------
\* names of entries under the archive root: a plain name, a name made of the
\* temporary prefix and a suffix, the bare prefix, the export directory
PlainName == <<"front">>
OtherName == <<"notes">>
BarePrefix == <<".", TempPrefix>>
EntryNames == {PlainName, OtherName, TempDirName("1"), BarePrefix, ExportDirName}

\* web.root: the listing of the archive root (kind of each entry), the ids
\* of the configured cameras, and the listing before and after the last sweep
InitRoot ==
    [entries |-> [n \in EntryNames |-> "none"],
     cameras |-> {PlainName},
     sweep |-> [ran |-> FALSE,
                before |-> [n \in EntryNames |-> "none"],
                after |-> [n \in EntryNames |-> "none"],
                cameras |-> {}]]

InitSweep ==
    /\ now = 0
    /\ archive = {}
    /\ recording = [c \in Cameras |-> None]
    /\ sm = InitSM
    /\ run = InitRun
    /\ InitExport
    /\ cm = NewCameraManager(DefaultConfigs)
    /\ cams = InitCam
    /\ stream = InitStream
    /\ extr = InitExtr
    /\ \E files \in SUBSET {OtherName, TempDirName("1")} :
          web = [cache |-> InitWeb.cache, refresh |-> InitWeb.refresh, req |-> InitWeb.req,
                 stats |-> InitWeb.stats, live |-> InitWeb.live,
                 root |-> [InitRoot EXCEPT
                             !.entries = [n \in EntryNames |->
                                             IF n \in files THEN "file" ELSE "none"]]]

\* handler_config.go lines 170-185: a new camera needs a non-empty id that no
\* configured camera has; the id is the name of its archive directory
handleAddCamera(id) ==
    /\ Len(id) > 0
    /\ id \notin web.root.cameras
    /\ web' = [web EXCEPT !.root.cameras = @ \cup {id}]
    /\ WebUnchanged

\* frame_extraction.go line 223: the capture loop of a configured camera
\* creates <videoDir>/<id>
recordVideoMkdir(id) ==
    /\ id \in web.root.cameras
    /\ web.root.entries[id] = "none"
    /\ web' = [web EXCEPT !.root.entries[id] = "dir"]
    /\ WebUnchanged

\* part_017 lines 172-173: an export job creates its workspace
MkdirTempDir ==
    /\ web.root.entries[TempDirName("1")] = "none"
    /\ web' = [web EXCEPT !.root.entries[TempDirName("1")] = "dir"]
    /\ WebUnchanged

\* part_017 line 256: an export job creates the export directory
MkdirExportDir ==
    /\ web.root.entries[ExportDirName] = "none"
    /\ web' = [web EXCEPT !.root.entries[ExportDirName] = "dir"]
    /\ WebUnchanged

\* part_001 lines 219-235: every directory of the listing with the name of
\* a temporary export directory is removed with all it holds
Swept(entries) ==
    [n \in DOMAIN entries |->
        IF entries[n] = "dir" /\ IsTempExportDir(n) THEN "none" ELSE entries[n]]

\* StorageManager.CleanupTempExportDirs on the archive root
CleanupRoot ==
    /\ web' = [web EXCEPT
                 !.root.entries = Swept(@),
                 !.root.sweep = [ran |-> TRUE, before |-> web.root.entries,
                                 after |-> Swept(web.root.entries),
                                 cameras |-> web.root.cameras]]
    /\ WebUnchanged

NextSweep ==
    \/ \E id \in EntryNames : handleAddCamera(id)
    \/ \E id \in EntryNames : recordVideoMkdir(id)
    \/ MkdirTempDir
    \/ MkdirExportDir
    \/ CleanupRoot

SpecSweep == InitSweep /\ [][NextSweep]_vars

\* ------------------------------------------------------------------------
\* C34: the sweep removes exactly the directories under the archive root
\* whose name is the temporary prefix followed by at least one character;
\* every camera archive directory, the export directory and every regular
\* file are as they were before
\* ------------------------------------------------------------------------
RemovedBySweep == {n \in EntryNames : web.root.sweep.after[n] # web.root.sweep.before[n]}

TempDirsBefore ==
    {n \in EntryNames : web.root.sweep.before[n] = "dir" /\ IsTempExportDir(n)}

C34_SweepRemovesExactlyTempDirs ==
    web.root.sweep.ran =>
        /\ RemovedBySweep = TempDirsBefore
        /\ \A n \in RemovedBySweep : web.root.sweep.after[n] = "none"
        /\ \A id \in web.root.sweep.cameras :
              web.root.sweep.after[id] = web.root.sweep.before[id]
        /\ web.root.sweep.after[ExportDirName] = web.root.sweep.before[ExportDirName]
        /\ \A n \in EntryNames :
              web.root.sweep.before[n] = "file" => web.root.sweep.after[n] = "file"

\* ------------------------------------------------------------------------
\* The camera supervisor with its goroutines: CameraManager.Start (main.go
\* 92-94), CameraManager.Stop (main.go 117), RestartWithConfigs called by
\* the HTTP handlers (handler_config.go 145, 204, 261), and the capture
\* loops with their frame-refresh tasks. In this part cm.cameras maps a
\* camera id to its Camera object (with its StreamManager), 0 for no entry.
\* ------------------------------------------------------------------------
MaxCams == 3
MaxLoops == 3
MaxCalls == 1

CamObjs == 1..MaxCams
LoopSlots == 1..MaxLoops

\* the configuration lists of the supervisor: the front camera alone or
\* followed by the rear camera, each enabled or not
SupervisorLists == {l \in ConfigLists : l[1].id = "front"}

NoLoop == [obj |-> 0, by |-> "none", pc |-> "none", task |-> "none"]
EmptyMap == [c \in Cameras |-> 0]

\* the Camera objects in a map
InMap(m) == {m[c] : c \in Cameras} \ {0}

\* lines 187-189 of initializeCameras: len(cm.cameras) == 0
NoCamerasMutant(m) == FALSE
NoCameras(m) == InMap(m) = {}

\* initializeCameras (167-186) on empty maps: the k-th enabled configuration
\* gets the object first + k - 1; a later entry with the same id replaces
\* an earlier one
RECURSIVE Initialized(_, _, _)
Initialized(configs, m, first) ==
    IF configs = <<>> THEN m
    ELSE IF Head(configs).enabled
         THEN Initialized(Tail(configs), [m EXCEPT ![Head(configs).id] = first], first + 1)
         ELSE Initialized(Tail(configs), m, first)

\* NewCameraManager (147-163): (nil, err) if initializeCameras fails
NewSupervisor(configs) ==
    LET m == Initialized(configs, EmptyMap, 1)
        failed == NoCameras(m)
    IN [configs |-> configs,
        err |-> failed,
        cameras |-> IF failed THEN EmptyMap ELSE m,
        next |-> IF failed THEN 1 ELSE 1 + Cardinality(Enabled(configs)),
        ids |-> [o \in CamObjs |->
                    IF \E c \in Cameras : m[c] = o /\ ~failed
                    THEN CHOOSE c \in Cameras : m[c] = o ELSE None],
        closes |-> [o \in CamObjs |-> 0],
        stopCh |-> FALSE,
        wg |-> 0,
        rlock |-> FALSE,
        loops |-> [k \in LoopSlots |-> NoLoop],
        main |-> [pc |-> IF failed THEN "fatal" ELSE "snapshot", snap |-> {}],
        stop |-> [pc |-> "idle", seen |-> {}, todo |-> {}],
        rs |-> [pc |-> "idle", calls |-> 0, configs |-> <<>>, i |-> 1, old |-> {},
                snap |-> {}]]

InitSupervisor ==
    /\ now = 0
    /\ archive = {}
    /\ recording = [c \in Cameras |-> None]
    /\ sm = InitSM
    /\ run = InitRun
    /\ InitExport
    /\ \E configs \in SupervisorLists : cm = NewSupervisor(configs)
    /\ cams = InitCam
    /\ stream = InitStream
    /\ extr = InitExtr
    /\ web = InitWeb

\* a step of a goroutine of the process; a panic in CameraManager.Stop, which
\* main calls, ends the process
SupStep(s) ==
    /\ cm.stop.pc # "panic"
    /\ cm' = s
    /\ CmUnchanged

FreeLoops == {k \in LoopSlots : cm.loops[k].pc = "none"}

\* startCamera (275-285): cameraWg.Add(1) and the goroutine that calls
\* cam.Start, which starts the frame-refresh task (frame_extraction.go 228)
\* and enters the capture loop
Started(s, o, by) ==
    LET k == CHOOSE k \in FreeLoops : \A j \in FreeLoops : k <= j
    IN [s EXCEPT !.wg = @ + 1,
                 !.loops[k] = [obj |-> o, by |-> by, pc |-> "check", task |-> "running"]]

\* Camera.Stop (recording.go 141-148) on object o: close(c.done); closing a
\* closed channel panics
Closed(s, o) == [s EXCEPT !.closes[o] = @ + 1]

\* ---- CameraManager.Start (195-201) ----
\* startAllCameras, 263-269: the cameras are collected under the read lock
StartSnapshot ==
    /\ cm.main.pc = "snapshot"
    /\ SupStep([cm EXCEPT !.main = [pc |-> "start", snap |-> InMap(cm.cameras)]])

\* 271-273: one startCamera per collected camera
StartCamera ==
    /\ cm.main.pc = "start"
    /\ \E o \in cm.main.snap :
          /\ FreeLoops # {}
          /\ SupStep([Started(cm, o, "main") EXCEPT !.main.snap = @ \ {o}])

\* line 198: <-cm.stopCh
StartBlock ==
    /\ cm.main.pc = "start"
    /\ cm.main.snap = {}
    /\ SupStep([cm EXCEPT !.main.pc = "wait"])

StartStopped ==
    /\ cm.main.pc = "wait"
    /\ cm.stopCh
    /\ SupStep([cm EXCEPT !.main.pc = "wgwait"])

\* line 199: cm.cameraWg.Wait() finds the counter at zero
StartWaited ==
    /\ cm.main.pc = "wgwait"
    /\ cm.wg = 0
    /\ SupStep([cm EXCEPT !.main.pc = "waited"])

\* line 200: return nil
StartReturn ==
    /\ cm.main.pc = "waited"
    /\ SupStep([cm EXCEPT !.main.pc = "returned"])

\* ---- CameraManager.Stop (203-218) ----
\* 205-208: stopCh is closed once, the read lock is taken, the iteration
\* over cm.cameras begins
StopBegin ==
    /\ ~cm.err
    /\ cm.stop.pc = "idle"
    /\ SupStep([cm EXCEPT !.stopCh = TRUE, !.rlock = TRUE,
                          !.stop = [pc |-> "cameras", seen |-> {},
                                    todo |-> InMap(cm.cameras)]])

\* 210-213: camera.Stop() for a camera of the map; initializeCameras writes
\* the map without the lock, so the iteration may or may not yield an entry
\* that is put in meanwhile
StopCamera ==
    /\ cm.stop.pc = "cameras"
    /\ \E o \in (cm.stop.todo \cup InMap(cm.cameras)) \ cm.stop.seen :
          SupStep(IF cm.closes[o] > 0
                  THEN [Closed(cm, o) EXCEPT !.stop.pc = "panic", !.rlock = FALSE]
                  ELSE [Closed(cm, o) EXCEPT !.stop.seen = @ \cup {o}])

\* 215-217 and the deferred RUnlock: the stream managers are stopped (a
\* sync.Once each), Stop returns
StopReturn ==
    /\ cm.stop.pc = "cameras"
    /\ cm.stop.todo \subseteq cm.stop.seen
    /\ SupStep([cm EXCEPT !.stop.pc = "returned", !.rlock = FALSE])

\* ---- RestartWithConfigs (221-259) ----
\* 223-232: the old cameras are collected under the read lock
RestartCollect(configs) ==
    /\ ~cm.err
    /\ cm.rs.pc = "idle"
    /\ cm.rs.calls < MaxCalls
    /\ cm.next + Cardinality(Enabled(configs)) <= MaxCams + 1
    /\ SupStep([cm EXCEPT !.rs = [pc |-> "stop", calls |-> @.calls + 1, configs |-> configs,
                                 i |-> 1, old |-> InMap(cm.cameras), snap |-> {}]])

\* 235-237: camera.Stop() for every collected camera; a panic ends the
\* handler
RestartStopCamera ==
    /\ cm.rs.pc = "stop"
    /\ \E o \in cm.rs.old :
          SupStep(IF cm.closes[o] > 0
                  THEN [Closed(cm, o) EXCEPT !.rs.pc = "panic"]
                  ELSE [Closed(cm, o) EXCEPT !.rs.old = @ \ {o}])

\* 243-248: under the write lock the maps are replaced by empty maps
RestartClearMaps ==
    /\ cm.rs.pc = "stop"
    /\ cm.rs.old = {}
    /\ ~cm.rlock
    /\ SupStep([cm EXCEPT !.cameras = EmptyMap, !.rs.pc = "init"])

\* initializeCameras, 167-186, one configuration, no lock held
RestartInitialize ==
    /\ cm.rs.pc = "init"
    /\ cm.rs.i <= Len(cm.rs.configs)
    /\ LET config == cm.rs.configs[cm.rs.i]
       IN SupStep(IF config.enabled
                  THEN [cm EXCEPT !.cameras[config.id] = cm.next,
                                  !.ids[cm.next] = config.id,
                                  !.next = @ + 1,
                                  !.rs.i = @ + 1]
                  ELSE [cm EXCEPT !.rs.i = @ + 1])

\* 187-189 and 251-253: without a camera the error is returned; else
\* startAllCameras collects the cameras
RestartSnapshot ==
    /\ cm.rs.pc = "init"
    /\ cm.rs.i > Len(cm.rs.configs)
    /\ SupStep(IF NoCameras(cm.cameras)
               THEN [cm EXCEPT !.rs.pc = "idle"]
               ELSE [cm EXCEPT !.rs.pc = "start", !.rs.snap = InMap(cm.cameras)])

\* 271-273: one startCamera per collected camera
RestartStartCamera ==
    /\ cm.rs.pc = "start"
    /\ \E o \in cm.rs.snap :
          /\ FreeLoops # {}
          /\ SupStep([Started(cm, o, "restart") EXCEPT !.rs.snap = @ \ {o}])

\* 257-258: the restart is complete
RestartReturn ==
    /\ cm.rs.pc = "start"
    /\ cm.rs.snap = {}
    /\ SupStep([cm EXCEPT !.rs.pc = "idle"])

\* ---- Camera.Start (frame_extraction.go 230-258) ----
\* 231-235 and 251-254: the loop returns when done is closed (the deferred
\* cameraWg.Done of startCamera runs), else it records the next segment
LoopCheck(k) ==
    /\ cm.loops[k].pc = "check"
    /\ SupStep(IF cm.closes[cm.loops[k].obj] > 0
               THEN [cm EXCEPT !.loops[k].pc = "exited", !.wg = @ - 1]
               ELSE [cm EXCEPT !.loops[k].pc = "segment"])

\* 244: recordAndStreamSegment returns (the segment is complete, the
\* recorder was killed or it failed)
LoopSegment(k) ==
    /\ cm.loops[k].pc = "segment"
    /\ SupStep([cm EXCEPT !.loops[k].pc = "check"])

\* backgroundFrameUpdate, 267-271: case <-c.done
RefreshReturn(k) ==
    /\ cm.loops[k].task = "running"
    /\ cm.closes[cm.loops[k].obj] > 0
    /\ SupStep([cm EXCEPT !.loops[k].task = "exited"])

NextSupervisor ==
    \/ StartSnapshot
    \/ StartCamera
    \/ StartBlock
    \/ StartStopped
    \/ StartWaited
    \/ StartReturn
    \/ StopBegin
    \/ StopCamera
    \/ StopReturn
    \/ \E configs \in SupervisorLists : RestartCollect(configs)
    \/ RestartStopCamera
    \/ RestartClearMaps
    \/ RestartInitialize
    \/ RestartSnapshot
    \/ RestartStartCamera
    \/ RestartReturn
    \/ \E k \in LoopSlots : LoopCheck(k)
    \/ \E k \in LoopSlots : LoopSegment(k)
    \/ \E k \in LoopSlots : RefreshReturn(k)

SpecSupervisor == InitSupervisor /\ [][NextSupervisor]_vars

\* the shutdown of a supervisor with one camera, with a restart that keeps
\* the camera. Every goroutine that can take a step takes it in the end
\* (the Go scheduler is preemptive, a segment has a fixed length and its
\* recorder is killed by Camera.Stop); whether and when Stop and
\* RestartWithConfigs are called is up to the environment.
FrontOnly == <<[id |-> "front", enabled |-> TRUE]>>

InitShutdown ==
    /\ now = 0
    /\ archive = {}
    /\ recording = [c \in Cameras |-> None]
    /\ sm = InitSM
    /\ run = InitRun
    /\ InitExport
    /\ cm = NewSupervisor(FrontOnly)
    /\ cams = InitCam
    /\ stream = InitStream
    /\ extr = InitExtr
    /\ web = InitWeb

StartSteps ==
    \/ StartSnapshot
    \/ StartCamera
    \/ StartBlock
    \/ StartStopped
    \/ StartWaited
    \/ StartReturn

StopSteps ==
    \/ StopCamera
    \/ StopReturn

RestartSteps ==
    \/ RestartStopCamera
    \/ RestartClearMaps
    \/ RestartInitialize
    \/ RestartSnapshot
    \/ RestartStartCamera
    \/ RestartReturn

LoopSteps(k) ==
    \/ LoopCheck(k)
    \/ LoopSegment(k)

NextShutdown ==
    \/ StartSteps
    \/ StopBegin
    \/ StopSteps
    \/ RestartCollect(FrontOnly)
    \/ RestartSteps
    \/ \E k \in LoopSlots : LoopSteps(k)
    \/ \E k \in LoopSlots : RefreshReturn(k)

SpecShutdown ==
    /\ InitShutdown
    /\ [][NextShutdown]_vars
    /\ WF_vars(StartSteps)
    /\ WF_vars(StopSteps)
    /\ WF_vars(RestartSteps)
    /\ \A k \in LoopSlots : WF_vars(LoopSteps(k)) /\ WF_vars(RefreshReturn(k))

\* ------------------------------------------------------------------------
\* C33: NewCameraManager with a list without an enabled camera returns an
\* error and no supervisor, and no capture loop is started
\* ------------------------------------------------------------------------
C33_NoSupervisorWithoutCamera ==
    Enabled(cm.configs) = {} =>
        /\ cm.err
        /\ cm.main.pc = "fatal"
        /\ InMap(cm.cameras) = {}
        /\ cm.wg = 0
        /\ \A k \in LoopSlots : cm.loops[k] = NoLoop

\* the constructor has failed on a list of two disabled cameras
C33_Witness ==
    /\ cm.err
    /\ Len(cm.configs) = 2
    /\ Enabled(cm.configs) = {}

\* ------------------------------------------------------------------------
\* C36: whatever the interleaving of RestartWithConfigs and
\* CameraManager.Stop, no Camera has its done channel closed twice
\* ------------------------------------------------------------------------
C36_DoneClosedOnce == \A o \in CamObjs : cm.closes[o] <= 1

\* ------------------------------------------------------------------------
\* C31: CameraManager.Start starts exactly one capture loop for every
\* enabled camera and none for a disabled one, does not return before the
\* stop signal, and returns only when every capture loop started by it or
\* by a RestartWithConfigs has exited
\* ------------------------------------------------------------------------
LoopsOf(o) == {k \in LoopSlots : cm.loops[k].obj = o}
LiveLoops == {k \in LoopSlots : cm.loops[k].pc \in {"check", "segment"}}
StartHasStarted == cm.main.pc \in {"wait", "wgwait", "waited", "returned"}

\* once Start has started the cameras and no restart is under way, every
\* camera in the map has one capture loop, and no Camera ever has two
C31_OneLoopPerCamera ==
    /\ \A o \in CamObjs : Cardinality(LoopsOf(o)) <= 1
    /\ (StartHasStarted /\ cm.rs.pc = "idle") =>
          \A o \in InMap(cm.cameras) : Cardinality(LoopsOf(o)) = 1

C31_NotBeforeStop == cm.main.pc \in {"wgwait", "waited", "returned"} => cm.stopCh

\* at the step in which Start returns no capture loop is alive
C31_AfterEveryLoop ==
    (cm.main.pc = "waited" /\ cm'.main.pc = "returned") => LiveLoops = {}

C31_StartSupervises ==
    /\ [](C31_OneLoopPerCamera /\ C31_NotBeforeStop)
    /\ [][C31_AfterEveryLoop]_vars

\* ------------------------------------------------------------------------
\* C32: after CameraManager.Stop has returned, every capture loop and every
\* frame-refresh task exits in the end and stays away, also those of the
\* cameras a concurrent or later RestartWithConfigs creates; a capture loop
\* that has seen done closed records no further segment
\* ------------------------------------------------------------------------
AllExited ==
    \A k \in LoopSlots :
        /\ cm.loops[k].pc \in {"none", "exited"}
        /\ cm.loops[k].task \in {"none", "exited"}

ExitedStaysExited ==
    \A k \in LoopSlots : cm.loops[k].pc = "exited" => cm'.loops[k].pc = "exited"

C32_AllExitAfterStop ==
    /\ [](cm.stop.pc = "returned" => <>[]AllExited)
    /\ [][ExitedStaysExited]_vars

====
